---- MODULE Spec2Model ----
(***************************************************************************)
(* Verification model of the accounting-integration service:               *)
(*   - the OAuth callback of OAuthService (state validation, token         *)
(*     exchange, persistence through IntegrationDataStore) and the initial *)
(*     sync it hands to a background task;                                 *)
(*   - AccountingDataStore.create_integration / update / delete with the   *)
(*     await points between its duplicate check and its insert;            *)
(*   - QuickBooksStrategy.fetch_initial_data.                              *)
(* Names that a file takes from accounting.common.constants are read at    *)
(* the value the constants module or the call site gives them.             *)
(***************************************************************************)
EXTENDS Integers, Sequences, FiniteSets, TLC

(* ------------------------------ bounds -------------------------------- *)
MaxPartners == 2
MaxCallbacks == 2
MaxCustomers == 2
MaxCreates == 3
MaxEntityRefs == 4
MaxPersists == 2
MaxRefreshes == 2
SigLen == 2
MaxChars == 3
\* Entity mappings the table may hold at once.
MaxMappings == 2

(* ------------------------- program constants -------------------------- *)
StateTTL == 600
VerifyStateMaxAge == 600
TicksPerSecond == 2
BlockSize == 16

QUICKBOOKS == "quickbooks"
XERO == "xero"
DefaultCompanyName_QUICKBOOKS == "QuickBooks Account"
DefaultCompanyName_GENERIC == "Accounting Account"
CallbackStatus_SUCCESS == "success"
CallbackStatus_ERROR == "error"
INTERNAL_ERROR == "Internal error"
SyncStatus_FULLY_SYNCED == "fully_synced"
SyncStatus_SYNC_ERROR == "sync_error"
COMPANY_INFO_FETCH_FAILED == "company_info_fetch_failed"
INITIAL_DATA_FETCH_FAILED == "initial_data_fetch_failed"

(* ------------------------------ domains ------------------------------- *)
Partners == 1..MaxPartners
Systems == {QUICKBOOKS, XERO}
\* Instants at which tokens are issued and presented: ages 0, 1, 600, 601.
TimePoints == {0, 1, StateTTL, StateTTL + 1}
NoRealm == ""
Realms == {"realm_456"}
CallbackUri == "https://octup.com/callback"

VARIABLES
    now,            \* wall clock (whole seconds) when the latest callback arrived
    integrations,   \* rows of accounting_integrations (IntegrationDataStore)
    last,           \* the CallbackDTO / context of the latest handle_callback
    inflight,       \* responses built by the callback route, not yet sent
    queue,          \* background tasks released by a sent response
    scheduled,      \* integration ids handed to add_task, in order
    responded,      \* responses sent: callback number, status, integration id
    syncStarted,    \* integration ids whose initial sync has run
    lastSync,       \* what the latest initial sync produced
    rows,           \* rows of integrations (AccountingDataStore)
    calls,          \* the AccountingDataStore.create_integration call of each caller
    entity_refs,    \* rows of integration_entity_refs (IntegrationEntityRefDataStore)
    auth_client,    \* the strategy's one AuthClient: its access_token and refresh_token
    refreshing,     \* the refresh_tokens calls: position and what each one saw
    intuit,         \* the provider: the refresh tokens it honours, how many it issued
    probe,          \* input and result of the codec operation last applied
    _strategies,    \* AccountingSystemFactory._strategies: the class registered for a system
    web,            \* the OAuth transaction at the routes: what was asked, what was answered
    entity_mappings,\* rows of entity_mappings (AccountingDataStore)
    retrying,       \* the execute_query call: attempts made, how the latest ended
    token_call      \* the get_valid_token call: what was supplied, what came back

vars == <<now, integrations, last, inflight, queue, scheduled, responded,
          syncStarted, lastSync, rows, calls, entity_refs,
                   auth_client, refreshing, intuit, probe,
                   _strategies, web, entity_mappings, retrying, token_call>>

(* ------------------------- Idle parts of the state --------------------- *)
\* AccountingSystemFactory._strategies as the class statement leaves it.
NoStrategies == [s \in {} |-> ""]

\* No request has reached the routes.
NoRequest ==
    [op |-> "", route |-> "", partner_id |-> 0, accounting_system |-> "",
     callback_url |-> "", state |-> <<>>, g |-> 0, v |-> 0, strategy |-> "",
     OCTUP_REDIRECT_URI |-> "", response |-> [kind |-> ""],
     presented |-> <<>>, v2 |-> 0]

Refreshers == 1..MaxRefreshes

\* AuthClient as constructed: no tokens.
NoClientTokens == [access_token |-> <<>>, refresh_token |-> <<>>]

\* A refresh_tokens call that has not started.
RefreshIdle ==
    [pc |-> "idle", integration_id |-> 0, used |-> <<>>, sent |-> <<>>,
     answer |-> "", error |-> FALSE, issued |-> NoClientTokens,
     written |-> {}, retired |-> {}, result |-> ""]

\* No codec operation has been applied.
NoProbe ==
    [op |-> "", codec |-> "", input |-> <<>>, g |-> 0, token |-> <<>>,
     tampered |-> FALSE, v |-> 0, result |-> <<>>, made |-> ""]

\* No execute_query call has been made.
NoQuery == [op |-> "", attempt_number |-> 0, outcomes |-> <<>>, raised |-> ""]

\* No get_valid_token call has been made.
NoTokenCall ==
    [op |-> "", access_token |-> <<>>, refresh_token |-> <<>>, expires_at |-> 0,
     utcnow |-> 0, answer |-> "", refreshes |-> 0,
     result |-> [raised |-> "", access_token |-> <<>>, refresh_token |-> <<>>,
                 needs_refresh |-> FALSE, expires_in |-> <<>>]]

(* --------------------------- Credential cipher ------------------------- *)
\* TokenEncryption.encrypt: AES-CBC under the process key with a random IV;
\* the ciphertext embeds the IV.  In the callback flow each call draws an IV
\* no earlier call drew.
encrypt(token, iv) == [iv |-> iv, key |-> "process", ct |-> token]

\* TokenEncryption.decrypt: inverse under the same key.
decrypt(c) == IF c.key = "process" THEN [ok |-> TRUE, token |-> c.ct]
              ELSE [ok |-> FALSE, token |-> ""]

(* --------------------------- State token codec ------------------------- *)
\* OAuthStateManager.generate_state: Fernet-encrypted JSON of the request
\* context and int(time.time()).
generate_state(partner_id, callback_uri, accounting_system, t) ==
    [seal |-> "fernet", partner_id |-> partner_id, callback_uri |-> callback_uri,
     accounting_system |-> accounting_system, timestamp |-> t]

\* Tokens that can be presented at time t: every token generate_state can
\* have issued up to t, issued tokens with a corrupted byte, and garbage.
IssuedTokens(t) ==
    { generate_state(p, CallbackUri, s, ts) :
        p \in Partners, s \in {QUICKBOOKS}, ts \in {x \in TimePoints : x <= t} }
TamperedTokens(t) == { [tok EXCEPT !.seal = "tampered"] : tok \in IssuedTokens(0) }
GarbageToken == [seal |-> "malformed", partner_id |-> 0, callback_uri |-> "",
                 accounting_system |-> "", timestamp |-> 0]
PresentableTokens(t) == IssuedTokens(t) \cup TamperedTokens(t) \cup {GarbageToken}

\* validate_state's age check, "if age > self.ttl_seconds", dropped.
StateExpiredNever(age) == FALSE

\* validate_state: if age > self.ttl_seconds
StateExpired(age) == age > StateTTL

\* OAuthStateManager.validate_state at time t: Fernet decrypt, JSON load,
\* age check; every failure is re-raised as ValueError.
validate_state(state, t) ==
    IF state.seal = "fernet of no JSON"
    THEN [ok |-> FALSE, data |-> state,
          error |-> "Invalid state parameter: Expecting value: line 1 column 1 (char 0)"]
    ELSE IF state.seal # "fernet"
    THEN [ok |-> FALSE, error |-> "Invalid state parameter: ", data |-> state]
    ELSE IF StateExpired(t - state.timestamp)
    THEN [ok |-> FALSE, error |-> "Invalid state parameter: State expired", data |-> state]
    ELSE [ok |-> TRUE, error |-> "", data |-> state]

(* ----------------------------- Provider API --------------------------- *)
\* What the provider's token endpoint does with an authorization code.
ProviderAnswers == {"granted", "empty", "error"}

\* QuickBooksAuthStrategy._exchange_code_for_tokens: get_bearer_token, then
\* both tokens must be non-empty.  k names the grant.
exchange_code_for_tokens(answer, k) ==
    CASE answer = "error" ->
            [raised |-> "Exception", message |-> "provider detail",
             access_token |-> <<>>, refresh_token |-> <<>>]
      [] answer = "empty" ->
            [raised |-> "ValueError",
             message |-> "Failed to obtain tokens from Intuit OAuth",
             access_token |-> <<>>, refresh_token |-> <<>>]
      [] OTHER ->
            [raised |-> "none", message |-> "",
             access_token |-> <<"access", k>>, refresh_token |-> <<"refresh", k>>]

(* ------------------------- IntegrationDataStore ----------------------- *)
DbAnswers == {"ok", "error"}

\* IntegrationDataStore.create_integration: add, flush, commit; no lookup of
\* existing rows; any failure is logged and re-raised.
create_integration(table, id, partner_id, accounting_system, realm_id, company_name, access_token, refresh_token, db) ==
    IF db = "error"
    THEN [raised |-> TRUE, integration_id |-> 0, table |-> table]
    ELSE [raised |-> FALSE, integration_id |-> id,
          table |-> table \cup
            {[integration_id |-> id, partner_id |-> partner_id,
              accounting_system |-> accounting_system, realm_id |-> realm_id,
              company_name |-> company_name, access_token |-> access_token,
              refresh_token |-> refresh_token, is_active |-> TRUE]}]

\* IntegrationDataStore.update_company_name
update_company_name(table, id, company_name) ==
    { IF r.integration_id = id THEN [r EXCEPT !.company_name = company_name] ELSE r
        : r \in table }

(* ----------------------------- OAuthService --------------------------- *)
\* self.strategies
Strategies == {QUICKBOOKS}

_default_company_name(accounting_system) ==
    IF accounting_system = QUICKBOOKS THEN DefaultCompanyName_QUICKBOOKS
    ELSE DefaultCompanyName_GENERIC

\* handle_callback's realmId check, "if not callback_dto.realmId", dropped.
MissingRealmIgnored(realmId) == FALSE

\* handle_callback: if not callback_dto.realmId
MissingRealm(realmId) == realmId = NoRealm

\* handle_callback's success return without its context.
CallbackContextDropped(integration_id, partner_id, accounting_system, realm_id, access_token) == {}

\* handle_callback: the CallbackContext returned beside the DTO on success
\* (a set: empty stands for None).
CallbackContext(integration_id, partner_id, accounting_system, realm_id, access_token) ==
    {[integration_id |-> integration_id, partner_id |-> partner_id,
      accounting_system |-> accounting_system, realm_id |-> realm_id,
      access_token |-> access_token]}

\* A handle_callback without except branches: the exception leaves the
\* function and no status is set.
CallbackFailed_propagates(steps, reason, table) ==
    [calls |-> steps, status |-> "", error_reason |-> "",
     integration_id |-> 0, context |-> {}, table |-> table]

\* handle_callback's two except branches: status error, no context.
CallbackFailed(steps, reason, table) ==
    [calls |-> steps, status |-> CallbackStatus_ERROR, error_reason |-> reason,
     integration_id |-> 0, context |-> {}, table |-> table]

\* OAuthService.handle_callback at time t, as the k-th callback served;
\* answer and db are what the provider and the database do when called.
handle_callback(state, accounting_system, realmId, answer, db, t, k, table) ==
    LET v == validate_state(state, t)
        x == exchange_code_for_tokens(answer, k)
        c == create_integration(table, Cardinality(table) + 1, v.data.partner_id,
                 accounting_system, realmId,
                 _default_company_name(accounting_system),
                 encrypt(x.access_token, 2 * k - 1),
                 encrypt(x.refresh_token, 2 * k), db)
    IN
    IF ~v.ok THEN CallbackFailed(<<"validate_state">>, v.error, table)
    ELSE IF accounting_system \notin Strategies
    THEN CallbackFailed(<<"validate_state">>, "Unsupported accounting system", table)
    ELSE IF MissingRealm(realmId)
    THEN CallbackFailed(<<"validate_state">>, "Missing realmId for OAuth callback", table)
    ELSE IF x.raised = "ValueError"
    THEN CallbackFailed(<<"validate_state", "exchange_code_for_tokens">>, x.message, table)
    ELSE IF x.raised = "Exception"
    THEN CallbackFailed(<<"validate_state", "exchange_code_for_tokens">>, INTERNAL_ERROR, table)
    ELSE IF c.raised
    THEN CallbackFailed(<<"validate_state", "exchange_code_for_tokens", "create_integration">>,
                        INTERNAL_ERROR, table)
    ELSE [calls |-> <<"validate_state", "exchange_code_for_tokens", "create_integration">>,
          status |-> CallbackStatus_SUCCESS, error_reason |-> "",
          integration_id |-> c.integration_id,
          context |-> CallbackContext(c.integration_id, v.data.partner_id,
                                      accounting_system, realmId, x.access_token),
          table |-> c.table]

(* --------------------------- Provider responses ------------------------ *)
NoParent == "absent"
\* Customer rows of a QuickBooks query response; "" is an absent or empty
\* field, ParentRef is absent, a {"value": ...} object (its value is given)
\* or something that is no object.
CustomerRows ==
    { [dict |-> TRUE, Id |-> "1", DisplayName |-> "Customer 1",
       FullyQualifiedName |-> "", ParentRef |-> NoParent],
      [dict |-> TRUE, Id |-> "2", DisplayName |-> "",
       FullyQualifiedName |-> "Customer 1:Job", ParentRef |-> "1"],
      [dict |-> TRUE, Id |-> "3", DisplayName |-> "",
       FullyQualifiedName |-> "", ParentRef |-> "no object"],
      [dict |-> TRUE, Id |-> "", DisplayName |-> "No Id",
       FullyQualifiedName |-> "", ParentRef |-> NoParent],
      [dict |-> FALSE, Id |-> "", DisplayName |-> "",
       FullyQualifiedName |-> "", ParentRef |-> NoParent] }

SeqsUpTo(S, n) == UNION { [1..k -> S] : k \in 0..n }

\* What the customer query does: it raises, or returns a Customer list.
CustomerAnswers ==
    {[raised |-> TRUE, customers |-> <<>>]} \cup
    { [raised |-> FALSE, customers |-> c] : c \in SeqsUpTo(CustomerRows, MaxCustomers) }

\* What the company-info call does: it raises, or returns a name (maybe the
\* default name, maybe empty).
CompanyAnswers ==
    { [raised |-> TRUE, name |-> ""],
      [raised |-> FALSE, name |-> "Acme Corp"],
      [raised |-> FALSE, name |-> DefaultCompanyName_QUICKBOOKS],
      [raised |-> FALSE, name |-> ""] }

\* A row shaped with the Id tried before the FullyQualifiedName.
ParsedCustomer_id_first(c) ==
    [accounting_client_id |-> c.Id,
     display_name |-> IF c.DisplayName # "" THEN c.DisplayName ELSE c.Id,
     parent_ref |-> IF c.ParentRef \in {"absent", "no object"} THEN "absent"
                    ELSE c.ParentRef]

\* One customer row as OAuthService._extract_customers /
\* QuickBooksStrategy._parse_qbo_customers shape it.
ParsedCustomer(c) ==
    [accounting_client_id |-> c.Id,
     display_name |-> IF c.DisplayName # "" THEN c.DisplayName
                      ELSE IF c.FullyQualifiedName # "" THEN c.FullyQualifiedName
                      ELSE c.Id,
     parent_ref |-> IF c.ParentRef \in {NoParent, "no object"} THEN NoParent
                    ELSE c.ParentRef]

\* The loop of _extract_customers / _parse_qbo_customers: rows without an
\* Id are skipped; a row that is no object makes customer.get raise.
RECURSIVE _extract_customers(_)
_extract_customers(customers) ==
    IF customers = <<>> THEN [raised |-> FALSE, results |-> <<>>]
    ELSE LET c == Head(customers)
             rest == _extract_customers(Tail(customers))
         IN  IF ~c.dict \/ rest.raised THEN [raised |-> TRUE, results |-> <<>>]
             ELSE IF c.Id = "" THEN rest
             ELSE [raised |-> FALSE, results |-> <<ParsedCustomer(c)>> \o rest.results]

(* ----------------------------- Initial sync ---------------------------- *)
\* No initial sync is running or has produced anything.
NoSync ==
    [by |-> "", integration_id |-> 0, partner_id |-> 0, company_name |-> "",
     status |-> "", errors |-> <<>>, accounting_clients |-> <<>>,
     notified |-> FALSE, base_url_set |-> FALSE, post |-> "ok",
     posted |-> 0, raised |-> FALSE, persisted |-> 0, persist_error |-> "",
     company |-> [raised |-> FALSE, name |-> ""],
     cust |-> [raised |-> FALSE, customers |-> <<>>]]

\* The status line with the test on errors dropped.
SyncStatusAlwaysSynced(errors) == SyncStatus_FULLY_SYNCED

\* status = SyncStatus.FULLY_SYNCED if not errors else SyncStatus.SYNC_ERROR
SyncStatusOf(errors) ==
    IF errors = <<>> THEN SyncStatus_FULLY_SYNCED ELSE SyncStatus_SYNC_ERROR

\* InitialSyncResult.has_errors / get_status
get_status(result) ==
    IF Len(result.errors) > 0 THEN SyncStatus_SYNC_ERROR ELSE SyncStatus_FULLY_SYNCED

\* The company name taken from the provider's answer even when the call raised.
NameAfterCompanyInfoUnguarded(default, company) == company.name

\* company_name after the first try block: the assignment from the
\* company-info call happens only when the call returns.
NameAfterCompanyInfo(default, company) ==
    IF company.raised THEN default ELSE company.name

\* The customer-step error put in front of the errors recorded so far.
ErrorsAfterCustomersPrepended(errors, failed, code) ==
    IF failed THEN <<code>> \o errors ELSE errors

\* errors after the second try block: errors.append(code) in its except branch.
ErrorsAfterCustomers(errors, failed, code) ==
    IF failed THEN Append(errors, code) ELSE errors

\* What the notification POST does: 2xx, a network error raised by
\* client.post, or a status that makes raise_for_status raise.
PostAnswers == {"ok", "network_error", "http_error"}

\* _post_integration_completed with a second attempt after a failed POST.
_post_integration_completed_retrying(base_url_set, post) ==
    [posts |-> IF ~base_url_set THEN 0 ELSE IF post = "ok" THEN 1 ELSE 2,
     raised |-> FALSE]

\* OAuthService._post_integration_completed: without a base URL it logs and
\* returns; else one client.post inside a try whose except branch logs
\* whatever post or raise_for_status raised.
_post_integration_completed(base_url_set, post) ==
    IF ~base_url_set THEN [posts |-> 0, raised |-> FALSE]
    ELSE [posts |-> 1, raised |-> FALSE]

\* OAuthService.process_initial_sync for one context.  company, upd and cust
\* are what the provider and the database do when called.
process_initial_sync(context, company, upd, cust, base_url_set, post) ==
    LET default == _default_company_name(context.accounting_system)
        company_name == NameAfterCompanyInfo(default, company)
        updates == ~company.raised /\ company.name # ""
        errors1 == IF company.raised \/ (updates /\ upd = "error")
                   THEN <<COMPANY_INFO_FETCH_FAILED>> ELSE <<>>
        parsed == _extract_customers(cust.customers)
        failed2 == cust.raised \/ parsed.raised
        errors == ErrorsAfterCustomers(errors1, failed2, INITIAL_DATA_FETCH_FAILED)
        notification == _post_integration_completed(base_url_set, post)
    IN  IF context.accounting_system \notin Strategies
        THEN [NoSync EXCEPT !.by = "process_initial_sync",
                            !.integration_id = context.integration_id]
        ELSE [by |-> "process_initial_sync",
              integration_id |-> context.integration_id,
              partner_id |-> context.partner_id,
              company_name |-> company_name,
              status |-> SyncStatusOf(errors),
              errors |-> errors,
              accounting_clients |-> IF failed2 THEN <<>> ELSE parsed.results,
              notified |-> TRUE,
              base_url_set |-> base_url_set,
              post |-> post,
              posted |-> notification.posts,
              raised |-> notification.raised,
              persisted |-> 0,
              persist_error |-> "",
              company |-> company,
              cust |-> cust]

\* Whether process_initial_sync calls datastore.update_company_name.
SyncUpdatesName(context, company) ==
    /\ context.accounting_system \in Strategies
    /\ ~company.raised
    /\ company.name # ""

\* QuickBooksStrategy.fetch_initial_data for one stored integration row.
\* valid is whether QuickBooksConnectionDetails.from_dict accepts the stored
\* details.  The decrypt of the stored access token stands outside the try
\* blocks: when it fails the call raises and returns no result.
fetch_initial_data(row, valid, company, upd, cust) ==
    LET default == DefaultCompanyName_QUICKBOOKS
        access_token == decrypt(row.access_token)
        company_name == NameAfterCompanyInfo(default, company)
        updates == ~company.raised /\ company.name # "" /\ company.name # default
        errors1 == IF company.raised \/ (updates /\ upd = "error")
                   THEN <<"Company info fetch failed">> ELSE <<>>
        parsed == _extract_customers(cust.customers)
        failed2 == cust.raised \/ parsed.raised
        errors == ErrorsAfterCustomers(errors1, failed2, "Customer fetch failed")
        result == [NoSync EXCEPT !.by = "fetch_initial_data",
                                 !.integration_id = row.integration_id,
                                 !.partner_id = row.partner_id]
    IN  IF ~valid
        THEN [result EXCEPT !.company_name = default,
                            !.status = SyncStatus_SYNC_ERROR,
                            !.errors = <<"Invalid connection details">>]
        ELSE IF ~access_token.ok
        THEN [result EXCEPT !.raised = TRUE]
        ELSE [result EXCEPT !.company_name = company_name,
                            !.status = SyncStatusOf(errors),
                            !.errors = errors,
                            !.accounting_clients = IF failed2 THEN <<>> ELSE parsed.results,
                            !.company = company,
                            !.cust = cust]

\* Whether fetch_initial_data gets as far as the provider calls.
FetchReachesProvider(row, valid) == valid /\ decrypt(row.access_token).ok

\* Whether fetch_initial_data calls datastore.update_connection_details.
FetchUpdatesName(row, valid, company) ==
    /\ FetchReachesProvider(row, valid)
    /\ ~company.raised
    /\ company.name # ""
    /\ company.name # DefaultCompanyName_QUICKBOOKS

(* ------------------- Callback route and background tasks --------------- *)
\* The callback route around handle_callback: a returned context is handed
\* to add_task once, and the redirect is built from the returned DTO.
callback_route(state, accounting_system, realmId, answer, db, t, k, table) ==
    LET h == handle_callback(state, accounting_system, realmId, answer, db, t, k, table)
    IN  [h EXCEPT !.calls = IF h.context # {} THEN Append(@, "add_task") ELSE @]

\* Whether a served callback made the named call.
Made(r, step) == step \in {r.calls[i] : i \in DOMAIN r.calls}

\* Ids of the tasks a route result hands to add_task.
TaskIds(r) == IF Made(r, "add_task") THEN <<r.integration_id>> ELSE <<>>

\* The provider and the database answer only when the handler calls them:
\* an answer nobody asks for is not drawn.
ProviderAnswersFor(state, sys, realmId, t, k, table) ==
    IF Made(handle_callback(state, sys, realmId, "granted", "ok", t, k, table),
            "exchange_code_for_tokens")
    THEN ProviderAnswers ELSE {"granted"}

DbAnswersFor(state, sys, realmId, answer, t, k, table) ==
    IF Made(handle_callback(state, sys, realmId, answer, "ok", t, k, table),
            "create_integration")
    THEN DbAnswers ELSE {"ok"}

NoCallback ==
    [n |-> 0, state |-> GarbageToken, accounting_system |-> "",
     realmId |-> NoRealm, answer |-> "granted", db |-> "ok", calls |-> <<>>, status |-> "", error_reason |-> "",
     integration_id |-> 0, context |-> {}]

Init ==
    /\ now = 0
    /\ integrations = {}
    /\ last = NoCallback
    /\ inflight = {}
    /\ queue = {}
    /\ scheduled = <<>>
    /\ responded = {}
    /\ syncStarted = {}
    /\ lastSync = NoSync
    /\ rows = {}
    /\ calls = <<>>
    /\ entity_refs = {}
    /\ auth_client = NoClientTokens
    /\ refreshing = [r \in Refreshers |-> RefreshIdle]
    /\ intuit = [valid |-> {}, issued |-> 0]
    /\ probe = NoProbe
    /\ _strategies = NoStrategies
    /\ web = NoRequest
    /\ entity_mappings = {}
    /\ retrying = NoQuery
    /\ token_call = NoTokenCall

\* GET /callback at time t: the provider redirects the user back with code,
\* state and realmId.
Callback ==
    /\ last.n < MaxCallbacks
    /\ \E t \in {x \in TimePoints : x >= now} :
       \E state \in PresentableTokens(t), sys \in Systems,
          realmId \in Realms \cup {NoRealm} :
       \E answer \in ProviderAnswersFor(state, sys, realmId, t, last.n + 1, integrations) :
       \E db \in DbAnswersFor(state, sys, realmId, answer, t, last.n + 1, integrations) :
          LET r == callback_route(state, sys, realmId, answer, db, t,
                                  last.n + 1, integrations)
          IN  /\ now' = t
              /\ last' = [n |-> last.n + 1, state |-> state,
                          accounting_system |-> sys, realmId |-> realmId,
                          answer |-> answer, db |-> db,
                          calls |-> r.calls, status |-> r.status,
                          error_reason |-> r.error_reason,
                          integration_id |-> r.integration_id,
                          context |-> r.context]
              /\ integrations' = r.table
              /\ scheduled' = scheduled \o TaskIds(r)
              /\ inflight' = inflight \cup
                    {[n |-> last.n + 1, status |-> r.status,
                      integration_id |-> r.integration_id,
                      tasks |-> IF TaskIds(r) # <<>> THEN r.context ELSE {}]}
    /\ UNCHANGED <<queue, responded, syncStarted, lastSync, rows, calls, entity_refs,
                   auth_client, refreshing, intuit, probe,
                   _strategies, web, entity_mappings, retrying, token_call>>

\* The redirect of one served callback goes out; its background tasks run
\* after it.
SendResponse ==
    /\ \E r \in inflight :
          /\ inflight' = inflight \ {r}
          /\ queue' = queue \cup r.tasks
          /\ responded' = responded \cup
                {[n |-> r.n, status |-> r.status, integration_id |-> r.integration_id]}
    /\ UNCHANGED <<now, integrations, last, scheduled, syncStarted, lastSync,
                   rows, calls, entity_refs,
                   auth_client, refreshing, intuit, probe,
                   _strategies, web, entity_mappings, retrying, token_call>>

\* The event loop starts a released background task.
RunBackgroundTask ==
    /\ \E context \in queue :
          /\ queue' = queue \ {context}
          /\ syncStarted' = syncStarted \cup {context.integration_id}
    /\ UNCHANGED <<now, integrations, last, inflight, scheduled, responded, lastSync,
                   rows, calls, entity_refs,
                   auth_client, refreshing, intuit, probe,
                   _strategies, web, entity_mappings, retrying, token_call>>

Next == Callback \/ SendResponse \/ RunBackgroundTask

Spec == Init /\ [][Next]_vars

(* ----------------------- AccountingDataStore ---------------------------- *)

\* One create_integration call per caller.
Creators == 1..MaxCreates

\* Integration rows of one partner with is_active true.
ActiveOf(table, partner_id) ==
    {r \in table : r.partner_id = partner_id /\ r.is_active}

\* get_active_integration_by_partner: a session of its own, then
\* scalar_one_or_none over the partner's active rows; more than one row makes
\* scalar_one_or_none raise MultipleResultsFound.
get_active_integration_by_partner(table, partner_id) ==
    IF Cardinality(ActiveOf(table, partner_id)) > 1
    THEN [raised |-> "MultipleResultsFound", row |-> {}]
    ELSE [raised |-> "", row |-> ActiveOf(table, partner_id)]

\* A caller that has not called create_integration yet.
NotCalled ==
    [pc |-> "idle", partner_id |-> 0, is_active |-> FALSE,
     active_seen |-> 0, raced |-> FALSE, outcome |-> ""]

\* create_integration up to the existence check (lines 58-63): the check
\* reads committed rows through its own session; a found row raises
\* DuplicateIntegrationError, MultipleResultsFound passes the
\* "except IntegrityError" clause untouched.  The accounting system of
\* the data plays no part in the check and is left out.  active_seen and raced
\* record what the check met: the partner's active rows, and whether another
\* call for the partner was between its check and its commit.
CreateCheck(c) ==
    /\ calls[c].pc = "idle"
    /\ \E partner_id \in Partners, is_active \in BOOLEAN :
          LET existing == get_active_integration_by_partner(rows, partner_id)
              outcome == IF existing.raised # "" THEN existing.raised
                         ELSE IF existing.row # {} THEN "DuplicateIntegrationError"
                         ELSE ""
          IN  calls' = [calls EXCEPT ![c] =
                  [pc |-> IF outcome = "" THEN "adding" ELSE "done",
                   partner_id |-> partner_id,
                   is_active |-> is_active,
                   active_seen |-> Cardinality(ActiveOf(rows, partner_id)),
                   raced |-> \E d \in Creators : /\ calls[d].pc = "adding"
                                                  /\ calls[d].partner_id = partner_id,
                   outcome |-> outcome]]
    /\ UNCHANGED <<now, integrations, last, inflight, queue, scheduled, responded,
                   syncStarted, lastSync, rows, entity_refs,
                   auth_client, refreshing, intuit, probe,
                   _strategies, web, entity_mappings, retrying, token_call>>

\* create_integration from session.add to the commit of get_session (lines
\* 65-70, base.py 43): the row becomes visible to other sessions.  An
\* IntegrityError at flush becomes DuplicateIntegrationError and the session
\* is rolled back.
CreateCommit(c) ==
    /\ calls[c].pc = "adding"
    /\ \E flush \in {"ok", "IntegrityError"} :
          IF flush = "ok"
          THEN /\ rows' = rows \cup {[id |-> c,
                                      partner_id |-> calls[c].partner_id,
                                      is_active |-> calls[c].is_active]}
               /\ calls' = [calls EXCEPT ![c].pc = "done", ![c].outcome = "created"]
          ELSE /\ rows' = rows
               /\ calls' = [calls EXCEPT ![c].pc = "done",
                                         ![c].outcome = "DuplicateIntegrationError"]
    /\ UNCHANGED <<now, integrations, last, inflight, queue, scheduled, responded,
                   syncStarted, lastSync, entity_refs,
                   auth_client, refreshing, intuit, probe,
                   _strategies, web, entity_mappings, retrying, token_call>>

\* update_integration with is_active set in the update data: setattr on the
\* row found by id, no look at the partner's other rows.
update_integration ==
    /\ \E r \in rows, is_active \in BOOLEAN :
          rows' = (rows \ {r}) \cup {[r EXCEPT !.is_active = is_active]}
    /\ UNCHANGED <<now, integrations, last, inflight, queue, scheduled, responded,
                   syncStarted, lastSync, calls, entity_refs,
                   auth_client, refreshing, intuit, probe,
                   _strategies, web, entity_mappings, retrying, token_call>>

\* delete_integration of an existing row.
delete_integration ==
    /\ \E r \in rows : rows' = rows \ {r}
    /\ UNCHANGED <<now, integrations, last, inflight, queue, scheduled, responded,
                   syncStarted, lastSync, calls, entity_refs,
                   auth_client, refreshing, intuit, probe,
                   _strategies, web, entity_mappings, retrying, token_call>>

InitStore ==
    /\ now = 0
    /\ integrations = {}
    /\ last = NoCallback
    /\ inflight = {}
    /\ queue = {}
    /\ scheduled = <<>>
    /\ responded = {}
    /\ syncStarted = {}
    /\ lastSync = NoSync
    /\ rows = {}
    /\ calls = [c \in Creators |-> NotCalled]
    /\ entity_refs = {}
    /\ auth_client = NoClientTokens
    /\ refreshing = [r \in Refreshers |-> RefreshIdle]
    /\ intuit = [valid |-> {}, issued |-> 0]
    /\ probe = NoProbe
    /\ _strategies = NoStrategies
    /\ web = NoRequest
    /\ entity_mappings = {}
    /\ retrying = NoQuery
    /\ token_call = NoTokenCall

NextStore ==
    \/ \E c \in Creators : CreateCheck(c)
    \/ \E c \in Creators : CreateCommit(c)
    \/ update_integration
    \/ delete_integration

SpecStore == InitStore /\ [][NextStore]_vars

(* ------------------------- Initial sync runs --------------------------- *)

\* The callback that created the integration the syncs below work on.
SeedCallback ==
    handle_callback(generate_state(1, CallbackUri, QUICKBOOKS, 0), QUICKBOOKS,
                    "realm_456", "granted", "ok", 0, 1, {})

\* The table that callback left, with the stored tokens readable under the
\* key of this process, or written under a key the settings no longer hold.
SeedTables ==
    { SeedCallback.table,
      { [r EXCEPT !.access_token.key = "previous", !.refresh_token.key = "previous"] :
            r \in SeedCallback.table } }

InitSync ==
    /\ now = 0
    /\ integrations \in SeedTables
    /\ last = [n |-> 1, state |-> generate_state(1, CallbackUri, QUICKBOOKS, 0),
               accounting_system |-> QUICKBOOKS, realmId |-> "realm_456",
               answer |-> "granted", db |-> "ok",
               calls |-> SeedCallback.calls, status |-> SeedCallback.status,
               error_reason |-> SeedCallback.error_reason,
               integration_id |-> SeedCallback.integration_id,
               context |-> SeedCallback.context]
    /\ inflight = {}
    /\ queue = {}
    /\ scheduled = <<>>
    /\ responded = {}
    /\ syncStarted = {}
    /\ lastSync = NoSync
    /\ rows = {}
    /\ calls = <<>>
    /\ entity_refs = {}
    /\ auth_client = NoClientTokens
    /\ refreshing = [r \in Refreshers |-> RefreshIdle]
    /\ intuit = [valid |-> {}, issued |-> 0]
    /\ probe = NoProbe
    /\ _strategies = NoStrategies
    /\ web = NoRequest
    /\ entity_mappings = {}
    /\ retrying = NoQuery
    /\ token_call = NoTokenCall

\* One run of OAuthService.process_initial_sync on the callback's context.
InitialSync ==
    /\ lastSync = NoSync
    /\ \E context \in last.context :
       \E company \in CompanyAnswers, cust \in CustomerAnswers, base_url_set \in BOOLEAN :
       \E upd \in (IF SyncUpdatesName(context, company) THEN DbAnswers ELSE {"ok"}),
          post \in (IF base_url_set THEN PostAnswers ELSE {"ok"}) :
          /\ lastSync' = process_initial_sync(context, company, upd, cust, base_url_set, post)
          /\ integrations' =
                IF SyncUpdatesName(context, company) /\ upd = "ok"
                THEN update_company_name(integrations, context.integration_id, company.name)
                ELSE integrations
    /\ UNCHANGED <<now, last, inflight, queue, scheduled, responded, syncStarted,
                   rows, calls, entity_refs,
                   auth_client, refreshing, intuit, probe,
                   _strategies, web, entity_mappings, retrying, token_call>>

\* One run of QuickBooksStrategy.fetch_initial_data on a stored integration.
FetchInitialData ==
    /\ lastSync = NoSync
    /\ \E row \in integrations, valid \in BOOLEAN :
       \E company \in (IF FetchReachesProvider(row, valid)
                       THEN CompanyAnswers ELSE {NoSync.company}),
          cust \in (IF FetchReachesProvider(row, valid)
                    THEN CustomerAnswers ELSE {NoSync.cust}) :
       \E upd \in (IF FetchUpdatesName(row, valid, company) THEN DbAnswers ELSE {"ok"}) :
          /\ lastSync' = fetch_initial_data(row, valid, company, upd, cust)
          /\ integrations' =
                IF FetchUpdatesName(row, valid, company) /\ upd = "ok"
                THEN update_company_name(integrations, row.integration_id, company.name)
                ELSE integrations
    /\ UNCHANGED <<now, last, inflight, queue, scheduled, responded, syncStarted,
                   rows, calls, entity_refs,
                   auth_client, refreshing, intuit, probe,
                   _strategies, web, entity_mappings, retrying, token_call>>

\* The sync task is over; what it built is gone.
TaskDone ==
    /\ lastSync # NoSync
    /\ lastSync' = NoSync
    /\ UNCHANGED <<now, integrations, last, inflight, queue, scheduled, responded,
                   syncStarted, rows, calls, entity_refs,
                   auth_client, refreshing, intuit, probe,
                   _strategies, web, entity_mappings, retrying, token_call>>

NextSync == InitialSync \/ FetchInitialData \/ TaskDone

SpecSync == InitSync /\ [][NextSync]_vars

(* --------------------------- Entity references ------------------------- *)
AccountingEntityType_CUSTOMER == "Customer"

\* InitialSyncResult.to_db_rows: one IntegrationEntityRefDBModel per client,
\* built without an id.
to_db_rows(result) ==
    [i \in DOMAIN result.accounting_clients |->
        [integration_id |-> result.integration_id,
         accounting_entity_type |-> AccountingEntityType_CUSTOMER,
         accounting_entity_id |-> result.accounting_clients[i].accounting_client_id,
         display_name |-> result.accounting_clients[i].display_name,
         is_active |-> TRUE]]

\* The columns integration_entity_refs declares unique: the primary key id
\* and nothing else.
EntityRefKey(r) == <<r.id>>

\* BaseSQLEngine.upsert_lines with the query of generate_upsert_query:
\* INSERT ... ON DUPLICATE KEY UPDATE, row by row.  id is among the excluded
\* columns, so every inserted row takes the column default, a fresh uuid; a
\* row is updated in place only when a declared key of it is already stored.
RECURSIVE upsert_lines(_, _)
upsert_lines(table, lines) ==
    IF lines = <<>> THEN table
    ELSE LET new == [id |-> Cardinality(table) + 1] @@ Head(lines)
             duplicate == {r \in table : EntityRefKey(r) = EntityRefKey(new)}
         IN  upsert_lines(IF duplicate = {} THEN table \cup {new}
                          ELSE (table \ duplicate) \cup
                               {[new EXCEPT !.id = r.id] : r \in duplicate},
                          Tail(lines))

\* IntegrationEntityRefDataStore.upsert_entity_refs: upsert_lines, then
\* res.inserted_primary_key_rows, any exception logged and re-raised.  For
\* no rows upsert_lines logs a warning and returns None without running a
\* query, and the attribute access on None raises AttributeError.
upsert_entity_refs(table, entity_refs_in, db) ==
    IF entity_refs_in = <<>>
    THEN [raised |-> TRUE, error |-> "AttributeError", table |-> table]
    ELSE IF db = "error"
    THEN [raised |-> TRUE, error |-> "DatabaseError", table |-> table]
    ELSE [raised |-> FALSE, error |-> "", table |-> upsert_lines(table, entity_refs_in)]

\* The clients of the InitialSyncResult at hand are persisted:
\* to_db_rows, then upsert_entity_refs.
PersistEntityRefs ==
    /\ lastSync.by = "fetch_initial_data"
    /\ ~lastSync.raised
    /\ lastSync.persisted < MaxPersists
    /\ Cardinality(entity_refs) + Len(lastSync.accounting_clients) <= MaxEntityRefs
    /\ \E db \in DbAnswers :
          LET u == upsert_entity_refs(entity_refs, to_db_rows(lastSync), db)
          IN  /\ entity_refs' = u.table
              /\ lastSync' = [lastSync EXCEPT
                                !.persisted = IF u.raised THEN @ ELSE @ + 1,
                                !.persist_error = u.error]
    /\ UNCHANGED <<now, integrations, last, inflight, queue, scheduled, responded,
                   syncStarted, rows, calls,
                   auth_client, refreshing, intuit, probe,
                   _strategies, web, entity_mappings, retrying, token_call>>

NextPersist == InitialSync \/ FetchInitialData \/ PersistEntityRefs \/ TaskDone

SpecPersist == InitSync /\ [][NextPersist]_vars

(* ------------------------------ Token refresh -------------------------- *)
\* The integrations two callbacks left: partner 1 and partner 2.
SeedCallback2 ==
    handle_callback(generate_state(2, CallbackUri, QUICKBOOKS, 0), QUICKBOOKS,
                    "realm_456", "granted", "ok", 0, 2, SeedCallback.table)

\* connection_details without a refresh token.
NoCipher == [iv |-> 0, key |-> "", ct |-> <<>>]

\* The tables a refresh can find: both integrations as the callbacks wrote
\* them, or integration 1 written under a key the settings no longer hold,
\* or integration 1 without a stored refresh token.
RefreshTables ==
    { SeedCallback2.table,
      { IF r.integration_id = 1
        THEN [r EXCEPT !.access_token.key = "previous", !.refresh_token.key = "previous"]
        ELSE r : r \in SeedCallback2.table },
      { IF r.integration_id = 1 THEN [r EXCEPT !.refresh_token = NoCipher] ELSE r
          : r \in SeedCallback2.table } }

\* The ids refresh_tokens is called with: the two integrations and one id
\* no row has.
RefreshTargets == {1, 2, 3}

\* IntegrationDataStore.get_integration_by_id
get_integration_by_id(table, integration_id) ==
    {r \in table : r.integration_id = integration_id}

\* What TokenEncryption.decrypt can do with a stored token: under the key
\* it was written with, the token; under another key the CBC output is
\* noise, and either decoding it raises or _unpad strips all of it and the
\* result is the empty string.
DecryptOutcomes(c) ==
    IF decrypt(c).ok THEN {decrypt(c)}
    ELSE {decrypt(c), [ok |-> TRUE, token |-> <<>>]}

\* What the provider can answer to a refresh request: a token it does not
\* honour is refused; one it honours is rotated, or the request fails, or
\* the response carries no tokens.
RefreshAnswers == {"rotated", "empty", "error"}

RefreshAnswersFor(sent, valid) ==
    IF sent \in valid THEN RefreshAnswers ELSE {"error"}

\* The tokens the provider issues as its n-th rotation.
RotatedTokens(n) ==
    [access_token |-> <<"access", MaxPartners + n>>,
     refresh_token |-> <<"refresh", MaxPartners + n>>]

\* _store_encrypted_tokens without the encryption: the columns hold the
\* tokens as they are, readable with no key.
_store_plain_tokens(table, integration_id, tokens, r, db) ==
    IF db = "error" THEN [raised |-> TRUE, table |-> table, written |-> {}]
    ELSE LET w == [access_token |-> [iv |-> 0, key |-> "none", ct |-> tokens.access_token],
                   refresh_token |-> [iv |-> 0, key |-> "none", ct |-> tokens.refresh_token]]
         IN  [raised |-> FALSE,
              table |-> { IF x.integration_id = integration_id
                          THEN [x EXCEPT !.access_token = w.access_token,
                                         !.refresh_token = w.refresh_token]
                          ELSE x : x \in table },
              written |-> {w}]

\* QuickBooksAuthStrategy._store_encrypted_tokens: both tokens encrypted,
\* then one update of the integration's stored tokens; a database error
\* propagates and stores nothing.
_store_encrypted_tokens(table, integration_id, tokens, r, db) ==
    IF db = "error" THEN [raised |-> TRUE, table |-> table, written |-> {}]
    ELSE LET w == [access_token |-> encrypt(tokens.access_token, 100 + 2 * r - 1),
                   refresh_token |-> encrypt(tokens.refresh_token, 100 + 2 * r)]
         IN  [raised |-> FALSE,
              table |-> { IF x.integration_id = integration_id
                          THEN [x EXCEPT !.access_token = w.access_token,
                                         !.refresh_token = w.refresh_token]
                          ELSE x : x \in table },
              written |-> {w}]

\* refresh_tokens up to its await on the executor: the integration is read,
\* its refresh token decrypted and put on the shared AuthClient.
RefreshStart(r) ==
    /\ refreshing[r].pc = "idle"
    /\ \E integration_id \in RefreshTargets :
          LET found == get_integration_by_id(integrations, integration_id)
              retired == {refreshing[q].used : q \in {q \in Refreshers :
                                                    refreshing[q].result = "ok"}}
              begun == [refreshing[r] EXCEPT !.integration_id = integration_id,
                                             !.retired = retired]
              raised == [begun EXCEPT !.pc = "done", !.result = "raised"]
          IN  IF found = {} \/ (\E row \in found : row.refresh_token = NoCipher)
              THEN /\ refreshing' = [refreshing EXCEPT ![r] = raised]
                   /\ UNCHANGED auth_client
              ELSE \E row \in found : \E d \in DecryptOutcomes(row.refresh_token) :
                      IF ~d.ok
                      THEN /\ refreshing' = [refreshing EXCEPT ![r] = raised]
                           /\ UNCHANGED auth_client
                      ELSE /\ refreshing' =
                                [refreshing EXCEPT ![r] =
                                    [begun EXCEPT !.pc = "submitted", !.used = d.token]]
                           /\ auth_client' = [auth_client EXCEPT !.refresh_token = d.token]
    /\ UNCHANGED <<now, integrations, last, inflight, queue, scheduled, responded,
                   syncStarted, lastSync, rows, calls, entity_refs, intuit, probe,
                   _strategies, web, entity_mappings, retrying, token_call>>

\* AuthClient.refresh in the executor thread: it sends the refresh token the
\* shared client holds when the thread runs, and a rotation puts the new
\* tokens on the client.
RefreshInExecutor(r) ==
    /\ refreshing[r].pc = "submitted"
    /\ LET sent == auth_client.refresh_token
       IN  \E answer \in RefreshAnswersFor(sent, intuit.valid) :
              LET new == RotatedTokens(intuit.issued + 1)
              IN  CASE answer = "rotated" ->
                         /\ intuit' = [valid |-> (intuit.valid \ {sent}) \cup {new.refresh_token},
                                       issued |-> intuit.issued + 1]
                         /\ auth_client' = new
                         /\ refreshing' = [refreshing EXCEPT ![r] =
                                 [@ EXCEPT !.pc = "ran", !.sent = sent, !.answer = answer,
                                            !.issued = new]]
                    [] answer = "empty" ->
                         /\ auth_client' = NoClientTokens
                         /\ refreshing' = [refreshing EXCEPT ![r] =
                                 [@ EXCEPT !.pc = "ran", !.sent = sent, !.answer = answer]]
                         /\ UNCHANGED intuit
                    [] OTHER ->
                         /\ refreshing' = [refreshing EXCEPT ![r] =
                                 [@ EXCEPT !.pc = "ran", !.sent = sent, !.answer = answer,
                                            !.error = TRUE]]
                         /\ UNCHANGED <<auth_client, intuit>>
    /\ UNCHANGED <<now, integrations, last, inflight, queue, scheduled, responded,
                   syncStarted, lastSync, rows, calls, entity_refs, probe,
                   _strategies, web, entity_mappings, retrying, token_call>>

\* Whether refresh_tokens raises after the executor call: the refresh raised
\* or a token read from the client is empty.
RefreshRejected(error, tokens) ==
    error \/ tokens.access_token = <<>> \/ tokens.refresh_token = <<>>

\* refresh_tokens after the await: an exception of the refresh is logged and
\* re-raised; else the tokens are read from the shared client, empty ones
\* raise ValueError, and the tokens are encrypted and stored.
RefreshFinish(r) ==
    /\ refreshing[r].pc = "ran"
    /\ LET tokens == auth_client
           run == [refreshing[r] EXCEPT !.pc = "done"]
       IN  IF RefreshRejected(refreshing[r].error, tokens)
           THEN /\ refreshing' = [refreshing EXCEPT ![r] = [run EXCEPT !.result = "raised"]]
                /\ UNCHANGED integrations
           ELSE \E db \in DbAnswers :
                   LET s == _store_encrypted_tokens(integrations, run.integration_id,
                                                    tokens, r, db)
                   IN  /\ integrations' = s.table
                       /\ refreshing' = [refreshing EXCEPT ![r] =
                               [run EXCEPT !.result = IF s.raised THEN "raised" ELSE "ok",
                                           !.written = s.written]]
    /\ UNCHANGED <<now, last, inflight, queue, scheduled, responded, syncStarted,
                   lastSync, rows, calls, entity_refs, auth_client, intuit, probe,
                   _strategies, web, entity_mappings, retrying, token_call>>

InitRefresh ==
    /\ now = 0
    /\ integrations \in RefreshTables
    /\ last = NoCallback
    /\ inflight = {}
    /\ queue = {}
    /\ scheduled = <<>>
    /\ responded = {}
    /\ syncStarted = {}
    /\ lastSync = NoSync
    /\ rows = {}
    /\ calls = <<>>
    /\ entity_refs = {}
    /\ auth_client = NoClientTokens
    /\ refreshing = [r \in Refreshers |-> RefreshIdle]
    /\ intuit = [valid |-> {<<"refresh", k>> : k \in 1..MaxPartners}, issued |-> 0]
    /\ probe = NoProbe
    /\ _strategies = NoStrategies
    /\ web = NoRequest
    /\ entity_mappings = {}
    /\ retrying = NoQuery
    /\ token_call = NoTokenCall

NextRefresh ==
    \E r \in Refreshers : RefreshStart(r) \/ RefreshInExecutor(r) \/ RefreshFinish(r)

SpecRefresh == InitRefresh /\ [][NextRefresh]_vars

(* ----------------------- State tokens on the clock --------------------- *)
\* Instants are counted in ticks of 1/TicksPerSecond second, so that a token
\* can be generated and validated between two whole seconds.

\* int(time.time()) rounding the clock up instead of truncating it.
int_time_rounded_up(tick) == (tick + TicksPerSecond - 1) \div TicksPerSecond

\* int(time.time()), int(datetime.now(timezone.utc).timestamp()): the clock
\* truncated to whole seconds.
int_time(tick) == tick \div TicksPerSecond

\* The untruncated clock of the age check, read in whole seconds only.
age_time_truncated(tick) == tick \div TicksPerSecond

\* time.time() as the age check uses it, untruncated.  The age
\* time.time() - timestamp is compared with a whole number of seconds and
\* timestamp is whole, so the comparison comes out as for the clock rounded
\* up to the next whole second.
age_time(tick) == (tick + TicksPerSecond - 1) \div TicksPerSecond

\* Characters of a signature: the hex digits 0..15 of hexdigest, one ASCII
\* character that is no hex digit, one character outside ASCII.
HexDigits == 0..15
NonHexChar == 16
NonAsciiChar == 17
SignatureChars == HexDigits \cup {NonHexChar, NonAsciiChar}

\* settings.OAUTH_STATE_SECRET
OAUTH_STATE_SECRET == 11

\* json.dumps of the state payload: every member with the kind of literal
\* it is written as.
json_dumps(payload) ==
    [k \in DOMAIN payload |->
        <<IF k \in {"timestamp", "partner_id"} THEN "number" ELSE "string", payload[k]>>]

\* json.loads: every member comes back with the value of its literal.
json_loads(text) == [k \in DOMAIN text |-> text[k][2]]

\* A text that is no JSON document, and whether json.loads accepts a text.
NotJsonText == [raw |-> <<"raw", 0>>]
json_decodes(text) == "raw" \notin DOMAIN text

\* base64.urlsafe_b64encode / urlsafe_b64decode
urlsafe_b64encode(text) == [b64 |-> text]
urlsafe_b64decode(b) == b.b64

\* The digits of n in base 16, len of them.
RECURSIVE HexDigest(_, _)
HexDigest(n, len) ==
    IF len = 0 THEN <<>> ELSE Append(HexDigest(n \div 16, len - 1), n % 16)

\* 16^len
RECURSIVE Pow16(_)
Pow16(len) == IF len = 0 THEN 1 ELSE 16 * Pow16(len - 1)

\* hmac.new(secret, payload_b64, "sha256").hexdigest(): a digest of SigLen
\* hex digits that depends on the secret and on every member of the message.
hmac_hexdigest(secret, payload_b64) ==
    LET text == urlsafe_b64decode(payload_b64)
        n == IF ~json_decodes(text) THEN secret + 5
             ELSE secret + 7 * text.partner_id[2] + 3 * text.timestamp[2]
                    + (IF text.accounting_system[2] = QUICKBOOKS THEN 1 ELSE 2)
    IN  HexDigest(n % Pow16(SigLen), SigLen)

\* A generate_state that leaves the clock out of the payload.
utils_generate_state_untimed(partner_id, accounting_system, tick) ==
    [payload_b64 |-> urlsafe_b64encode(json_dumps(
                        [partner_id |-> partner_id,
                         accounting_system |-> accounting_system, timestamp |-> 0])),
     signature |-> HexDigest((OAUTH_STATE_SECRET + 7 * partner_id) % Pow16(SigLen), SigLen)]

\* utils.oauth_state.generate_state at the given instant:
\* payload_b64 "." signature.
utils_generate_state(partner_id, accounting_system, tick) ==
    LET payload == [partner_id |-> partner_id, accounting_system |-> accounting_system,
                    timestamp |-> int_time(tick)]
        payload_b64 == urlsafe_b64encode(json_dumps(payload))
    IN  [payload_b64 |-> payload_b64,
         signature |-> hmac_hexdigest(OAUTH_STATE_SECRET, payload_b64)]

\* A comparison that looks at the first character only.
compare_digest_prefix(a, b) ==
    IF \E i \in DOMAIN a : a[i] = NonAsciiChar THEN "TypeError"
    ELSE IF Len(a) > 0 /\ Len(b) > 0 /\ a[1] = b[1] THEN "equal" ELSE "different"

\* hmac.compare_digest on two str: TypeError when one holds a character
\* outside ASCII, else whether they are equal.
compare_digest(a, b) ==
    IF \E i \in DOMAIN a : a[i] = NonAsciiChar THEN "TypeError"
    ELSE IF a = b THEN "equal" ELSE "different"

\* utils.oauth_state.verify_state at the given instant.  result is the
\* payload, None, or the TypeError compare_digest raised outside any try.
verify_state(state, tick) ==
    LET none == [kind |-> "None", expired |-> FALSE, payload |-> <<>>]
        expected_signature == hmac_hexdigest(OAUTH_STATE_SECRET, state.payload_b64)
        compared == compare_digest(state.signature, expected_signature)
        payload == json_loads(urlsafe_b64decode(state.payload_b64))
    IN  IF "signature" \notin DOMAIN state THEN none
        ELSE IF compared = "TypeError"
        THEN [none EXCEPT !.kind = "TypeError"]
        ELSE IF compared # "equal" THEN none
        ELSE IF ~json_decodes(urlsafe_b64decode(state.payload_b64)) THEN none
        ELSE IF payload.timestamp = 0 THEN none
        ELSE IF age_time(tick) - payload.timestamp > VerifyStateMaxAge
        THEN [none EXCEPT !.expired = TRUE]
        ELSE [kind |-> "payload", expired |-> FALSE, payload |-> payload]

\* hmac.new(secret, state_bytes, hashlib.sha256).digest() of the app codec,
\* SigLen bytes of it.
hmac_digest(secret, state_bytes) ==
    HexDigest((secret + 7 * state_bytes.organization_id[2] + 3 * state_bytes.expires_at[2])
                 % Pow16(SigLen), SigLen)

\* app.utils.oauth_state.generate_state at the given instant: the signature
\* followed by the JSON of organization_id and expires_at = utcnow() + 10
\* minutes, base64-encoded as one string.
app_generate_state(organization_id, tick) ==
    LET state_bytes == json_dumps([organization_id |-> organization_id,
                                   expires_at |-> tick + 10 * 60 * TicksPerSecond])
    IN  urlsafe_b64encode([signature |-> hmac_digest(OAUTH_STATE_SECRET, state_bytes),
                           state_bytes |-> state_bytes])

\* app.utils.oauth_state.verify_state at the given instant; whatever is
\* raised inside, base64 text that does not decode included, gives None.
app_verify_state(state, tick) ==
    LET none == [kind |-> "None", expired |-> FALSE, payload |-> <<>>]
        combined == urlsafe_b64decode(state)
        undecodable == \E i \in DOMAIN combined.signature :
                           combined.signature[i] \notin HexDigits
        expected_signature == hmac_digest(OAUTH_STATE_SECRET, combined.state_bytes)
        state_data == json_loads(combined.state_bytes)
    IN  IF undecodable THEN none
        ELSE IF combined.signature # expected_signature THEN none
        ELSE IF tick > state_data.expires_at THEN [none EXCEPT !.expired = TRUE]
        ELSE [kind |-> "payload", expired |-> FALSE, payload |-> state_data]

\* The signature part of a token of the given codec.
SignatureOf(codec, token) ==
    IF codec = "app.utils.oauth_state" THEN urlsafe_b64decode(token).signature
    ELSE token.signature

\* The token with character i of its signature part replaced by c.
WithSignatureChar(codec, token, i, c) ==
    IF codec = "app.utils.oauth_state"
    THEN urlsafe_b64encode([urlsafe_b64decode(token) EXCEPT !.signature[i] = c])
    ELSE [token EXCEPT !.signature[i] = c]

\* The signature the codec computes for the payload part of the token.
ExpectedSignatureOf(codec, token) ==
    IF codec = "app.utils.oauth_state"
    THEN hmac_digest(OAUTH_STATE_SECRET, urlsafe_b64decode(token).state_bytes)
    ELSE hmac_hexdigest(OAUTH_STATE_SECRET, token.payload_b64)

\* OAuthStateManager.generate_state at the given instant.
manager_generate_state(partner_id, callback_uri, accounting_system, tick) ==
    generate_state(partner_id, callback_uri, accounting_system, int_time(tick))

\* OAuthStateManager.validate_state at the given instant.
manager_validate_state(state, tick) ==
    LET v == validate_state(state, age_time(tick))
    IN  [kind |-> IF v.ok THEN "payload" ELSE "ValueError",
         error |-> v.error,
         expired |-> v.error = "Invalid state parameter: State expired",
         payload |-> IF v.ok
                     THEN [partner_id |-> v.data.partner_id,
                           callback_uri |-> v.data.callback_uri,
                           accounting_system |-> v.data.accounting_system,
                           timestamp |-> v.data.timestamp]
                     ELSE <<>>]

\* The instants at which tokens are generated: on a whole second and
\* between two, the clock being well past the epoch.
GenerationTicks == {TicksPerSecond, TicksPerSecond + 1}

\* How long after generation a token is validated, in ticks: at once, one
\* tick later, TTL - 1 s, TTL, one tick past TTL, TTL + 1 s.
ValidationDelays ==
    {0, 1, (StateTTL - 1) * TicksPerSecond, StateTTL * TicksPerSecond,
     StateTTL * TicksPerSecond + 1, (StateTTL + 1) * TicksPerSecond}

StateCodecs == {"OAuthStateManager", "utils.oauth_state", "app.utils.oauth_state"}
SignedCodecs == {"utils.oauth_state", "app.utils.oauth_state"}

\* A token is generated.
GenerateState ==
    /\ probe.op = ""
    /\ \E codec \in StateCodecs, partner_id \in Partners, g \in GenerationTicks :
          probe' = [NoProbe EXCEPT
                      !.op = "generated", !.codec = codec, !.g = g,
                      !.input = [partner_id |-> partner_id,
                                 accounting_system |-> QUICKBOOKS,
                                 callback_uri |-> CallbackUri],
                      !.token = IF codec = "OAuthStateManager"
                                THEN manager_generate_state(partner_id, CallbackUri,
                                                            QUICKBOOKS, g)
                                ELSE IF codec = "utils.oauth_state"
                                THEN utils_generate_state(partner_id, QUICKBOOKS, g)
                                ELSE app_generate_state(partner_id, g)]
    /\ UNCHANGED <<now, integrations, last, inflight, queue, scheduled, responded,
                   syncStarted, lastSync, rows, calls, entity_refs,
                   auth_client, refreshing, intuit,
                   _strategies, web, entity_mappings, retrying, token_call>>

\* One character of the signature of a generated token is changed.
TamperSignature ==
    /\ probe.op = "generated"
    /\ probe.codec \in SignedCodecs
    /\ \E i \in 1..SigLen, c \in SignatureChars :
          /\ c # SignatureOf(probe.codec, probe.token)[i]
          /\ probe' = [probe EXCEPT
                         !.op = "tampered", !.tampered = TRUE,
                         !.token = WithSignatureChar(probe.codec, probe.token, i, c)]
    /\ UNCHANGED <<now, integrations, last, inflight, queue, scheduled, responded,
                   syncStarted, lastSync, rows, calls, entity_refs,
                   auth_client, refreshing, intuit,
                   _strategies, web, entity_mappings, retrying, token_call>>

\* The token at hand is validated some time after its generation.
ValidateState ==
    /\ probe.op \in {"generated", "tampered", "forged"}
    /\ \E d \in ValidationDelays :
          probe' = [probe EXCEPT
                      !.op = "validated", !.v = probe.g + d,
                      !.result = IF probe.codec = "OAuthStateManager"
                                 THEN manager_validate_state(probe.token, probe.g + d)
                                 ELSE IF probe.codec = "utils.oauth_state"
                                 THEN verify_state(probe.token, probe.g + d)
                                 ELSE app_verify_state(probe.token, probe.g + d)]
    /\ UNCHANGED <<now, integrations, last, inflight, queue, scheduled, responded,
                   syncStarted, lastSync, rows, calls, entity_refs,
                   auth_client, refreshing, intuit,
                   _strategies, web, entity_mappings, retrying, token_call>>

InitState ==
    /\ now = 0
    /\ integrations = {}
    /\ last = NoCallback
    /\ inflight = {}
    /\ queue = {}
    /\ scheduled = <<>>
    /\ responded = {}
    /\ syncStarted = {}
    /\ lastSync = NoSync
    /\ rows = {}
    /\ calls = <<>>
    /\ entity_refs = {}
    /\ auth_client = NoClientTokens
    /\ refreshing = [r \in Refreshers |-> RefreshIdle]
    /\ intuit = [valid |-> {}, issued |-> 0]
    /\ probe = NoProbe
    /\ _strategies = NoStrategies
    /\ web = NoRequest
    /\ entity_mappings = {}
    /\ retrying = NoQuery
    /\ token_call = NoTokenCall

NextState == GenerateState \/ TamperSignature \/ ValidateState

SpecState == InitState /\ [][NextState]_vars

\* Strings nobody generated, by what is wrong with them: a string without a
\* dot and the empty string (for Fernet, a string that is no token), a token
\* whose signature is not that of its payload, and a rightly sealed text
\* that is no JSON.
ForgedStates(codec) ==
    IF codec = "OAuthStateManager"
    THEN {[made |-> "malformed format", token |-> GarbageToken],
          [made |-> "signature mismatch",
           token |-> [generate_state(1, CallbackUri, QUICKBOOKS, 1) EXCEPT !.seal = "tampered"]],
          [made |-> "JSON decode failure",
           token |-> [GarbageToken EXCEPT !.seal = "fernet of no JSON"]]}
    ELSE {[made |-> "malformed format", token |-> [text |-> "invalid-state-no-dot"]],
          [made |-> "malformed format", token |-> [text |-> ""]],
          [made |-> "signature mismatch",
           token |-> [payload_b64 |-> urlsafe_b64encode(NotJsonText),
                      signature |-> HexDigest(0, SigLen)]],
          [made |-> "JSON decode failure",
           token |-> [payload_b64 |-> urlsafe_b64encode(NotJsonText),
                      signature |-> hmac_hexdigest(OAUTH_STATE_SECRET,
                                                   urlsafe_b64encode(NotJsonText))]]}

\* A string nobody generated is presented.
ForgeState ==
    /\ probe.op = ""
    /\ \E codec \in {"OAuthStateManager", "utils.oauth_state"}, g \in GenerationTicks :
          \E f \in ForgedStates(codec) :
             probe' = [NoProbe EXCEPT
                         !.op = "forged", !.codec = codec, !.g = g,
                         !.made = f.made, !.token = f.token,
                         !.tampered = f.made = "signature mismatch"]
    /\ UNCHANGED <<now, integrations, last, inflight, queue, scheduled, responded,
                   syncStarted, lastSync, rows, calls, entity_refs,
                   auth_client, refreshing, intuit,
                   _strategies, web, entity_mappings, retrying, token_call>>

NextForged == GenerateState \/ TamperSignature \/ ForgeState \/ ValidateState

SpecForged == InitState /\ [][NextForged]_vars

(* ---------------------- TokenEncryption on bytes ----------------------- *)
\* Strings are sequences of code points, byte strings sequences of 0..255.
CodePoints == {97, 233, 8364}

\* str.encode() of one character: UTF-8.
EncodeChar(c) ==
    IF c < 128 THEN <<c>>
    ELSE IF c < 2048 THEN <<192 + (c \div 64), 128 + (c % 64)>>
    ELSE <<224 + (c \div 4096), 128 + ((c \div 64) % 64), 128 + (c % 64)>>

\* str.encode(): the encodings of the characters in order (the string is
\* split in halves to keep the evaluation shallow).
RECURSIVE str_encode(_)
str_encode(str) ==
    IF str = <<>> THEN <<>>
    ELSE IF Len(str) = 1 THEN EncodeChar(str[1])
    ELSE LET half == Len(str) \div 2
         IN  str_encode(SubSeq(str, 1, half)) \o str_encode(SubSeq(str, half + 1, Len(str)))

\* A UTF-8 continuation byte.
IsContinuation(b) == b >= 128 /\ b < 192

\* How many bytes the character that starts with byte b takes; 0 when no
\* character of up to three bytes starts with it.
WidthOf(b) ==
    IF b < 128 THEN 1 ELSE IF b >= 192 /\ b < 224 THEN 2
    ELSE IF b >= 224 /\ b < 240 THEN 3 ELSE 0

\* bytes.decode(): UTF-8 of one to three bytes per character; anything else
\* raises UnicodeDecodeError.
bytes_decode(data) ==
    LET starts == {i \in 1..Len(data) : ~IsContinuation(data[i])}
        wellformed ==
            /\ Len(data) > 0 => 1 \in starts
            /\ \A i \in starts :
                  LET n == WidthOf(data[i])
                  IN  /\ n > 0
                      /\ i + n - 1 <= Len(data)
                      /\ \A k \in (i + 1)..(i + n - 1) : IsContinuation(data[k])
                      /\ i + n <= Len(data) => (i + n) \in starts
        rank == [i \in starts |-> Cardinality({k \in starts : k <= i})]
        CharAt(i) ==
            LET n == WidthOf(data[i])
            IN  IF n = 1 THEN data[i]
                ELSE IF n = 2 THEN (data[i] - 192) * 64 + (data[i + 1] - 128)
                ELSE (data[i] - 224) * 4096 + (data[i + 1] - 128) * 64
                       + (data[i + 2] - 128)
    IN  IF ~wellformed THEN [ok |-> FALSE, str |-> <<>>]
        ELSE [ok |-> TRUE,
              str |-> [n \in 1..Cardinality(starts) |->
                          CharAt(CHOOSE i \in starts : rank[i] = n)]]

\* Padding that adds nothing to data already a whole number of blocks.
_pad_to_block(data) ==
    LET padding_length == (BlockSize - (Len(data) % BlockSize)) % BlockSize
    IN  data \o [i \in 1..padding_length |-> padding_length]

\* TokenEncryption._pad
_pad(data) ==
    LET padding_length == BlockSize - (Len(data) % BlockSize)
    IN  data \o [i \in 1..padding_length |-> padding_length]

\* TokenEncryption._unpad: data[:-data[-1]], with Python's slicing: a length
\* of 0 gives data[:0], one beyond the data gives the empty string.
_unpad(data) ==
    LET padding_length == data[Len(data)]
    IN  IF padding_length = 0 \/ padding_length >= Len(data) THEN <<>>
        ELSE SubSeq(data, 1, Len(data) - padding_length)

\* Bitwise exclusive or of two bytes.
RECURSIVE Xor(_, _)
Xor(a, b) ==
    IF a = 0 THEN b ELSE IF b = 0 THEN a
    ELSE 2 * Xor(a \div 2, b \div 2) + ((a + b) % 2)

\* The block cipher under self.key and its inverse: a keyed permutation of
\* the bytes of a block.
KeyByte(j) == (37 * j + 11) % 256
BlockEncrypt(block) == [j \in 1..BlockSize |-> (block[j] + KeyByte(j)) % 256]
BlockDecrypt(block) == [j \in 1..BlockSize |-> (block[j] + 256 - KeyByte(j)) % 256]

\* Block n of a byte string.
BlockOf(data, n) == SubSeq(data, (n - 1) * BlockSize + 1, n * BlockSize)

\* CBC encryption: each block is xored with the previous ciphertext block,
\* the first with the IV, and then encrypted.
RECURSIVE CbcEncrypt(_, _)
CbcEncrypt(padded, previous) ==
    IF padded = <<>> THEN <<>>
    ELSE LET block == BlockOf(padded, 1)
             c == BlockEncrypt([j \in 1..BlockSize |-> Xor(block[j], previous[j])])
         IN  c \o CbcEncrypt(SubSeq(padded, BlockSize + 1, Len(padded)), c)

\* CBC decryption.
CbcDecrypt(encrypted, iv) ==
    [i \in 1..Len(encrypted) |->
        LET n == (i - 1) \div BlockSize + 1
            j == ((i - 1) % BlockSize) + 1
            previous == IF n = 1 THEN iv ELSE BlockOf(encrypted, n - 1)
        IN  Xor(BlockDecrypt(BlockOf(encrypted, n))[j], previous[j])]

\* base64.b64encode / b64decode
b64encode(data) == [b64 |-> data]
b64decode(text) == text.b64

\* TokenEncryption.encrypt with the IV os.urandom drew.
TokenEncryption_encrypt(token, iv) ==
    b64encode(iv \o CbcEncrypt(_pad(str_encode(token)), iv))

\* TokenEncryption.decrypt; on no blocks at all data[-1] of _unpad raises
\* IndexError.
TokenEncryption_decrypt(encrypted_token) ==
    LET data == b64decode(encrypted_token)
        iv == SubSeq(data, 1, BlockSize)
        encrypted == SubSeq(data, BlockSize + 1, Len(data))
        decrypted == CbcDecrypt(encrypted, iv)
    IN  IF decrypted = <<>> THEN [ok |-> FALSE, str |-> <<>>]
        ELSE bytes_decode(_unpad(decrypted))

\* All strings over S of length n.
RECURSIVE StringsOfLen(_, _)
StringsOfLen(S, n) ==
    IF n = 0 THEN {<<>>}
    ELSE {Append(str, c) : str \in StringsOfLen(S, n - 1), c \in S}

\* The character c repeated n times.
Repeat(c, n) == [i \in 1..n |-> c]

\* The strings encrypted: every string of up to MaxChars characters, strings
\* one byte short of a block, of one and two whole blocks, one byte over a
\* block, a whole block of two-byte characters, and 501 characters.
CipherInputs ==
    UNION {StringsOfLen(CodePoints, n) : n \in 0..MaxChars}
      \cup {Repeat(97, BlockSize - 1), Repeat(97, BlockSize), Repeat(97, BlockSize + 1),
            Repeat(97, 2 * BlockSize), Repeat(233, BlockSize \div 2), Repeat(97, 501)}

\* The IVs os.urandom(16) draws here.
IVs == {[j \in 1..BlockSize |-> 0], [j \in 1..BlockSize |-> (15 * j + 200) % 256]}

\* A token is encrypted.
Encrypt ==
    /\ probe.op = ""
    /\ \E token \in CipherInputs, iv \in IVs :
          probe' = [NoProbe EXCEPT !.op = "encrypted", !.codec = "TokenEncryption",
                                   !.input = token,
                                   !.token = TokenEncryption_encrypt(token, iv)]
    /\ UNCHANGED <<now, integrations, last, inflight, queue, scheduled, responded,
                   syncStarted, lastSync, rows, calls, entity_refs,
                   auth_client, refreshing, intuit,
                   _strategies, web, entity_mappings, retrying, token_call>>

\* The ciphertext at hand is decrypted.
Decrypt ==
    /\ probe.op = "encrypted"
    /\ probe' = [probe EXCEPT !.op = "decrypted",
                              !.result = TokenEncryption_decrypt(probe.token)]
    /\ UNCHANGED <<now, integrations, last, inflight, queue, scheduled, responded,
                   syncStarted, lastSync, rows, calls, entity_refs,
                   auth_client, refreshing, intuit,
                   _strategies, web, entity_mappings, retrying, token_call>>

NextCipher == Encrypt \/ Decrypt

SpecCipher == InitState /\ [][NextCipher]_vars

\* One byte of the ciphertext at hand is changed in storage or in transit:
\* the last byte of the block before the last one (of the IV when there is
\* one block), which CBC xors into the padding byte, or the last byte.
Corrupt ==
    /\ probe.op = "encrypted"
    /\ Len(probe.input) <= 2 * BlockSize
    /\ LET data == b64decode(probe.token)
       IN  \E i \in {Len(data) - BlockSize, Len(data)}, d \in {1, 128} :
              probe' = [probe EXCEPT
                          !.op = "corrupted", !.tampered = TRUE,
                          !.token = b64encode([data EXCEPT ![i] = (@ + d) % 256])]
    /\ UNCHANGED <<now, integrations, last, inflight, queue, scheduled, responded,
                   syncStarted, lastSync, rows, calls, entity_refs,
                   auth_client, refreshing, intuit,
                   _strategies, web, entity_mappings, retrying, token_call>>

\* The corrupted ciphertext is decrypted.
DecryptCorrupted ==
    /\ probe.op = "corrupted"
    /\ probe' = [probe EXCEPT !.op = "decrypted",
                              !.result = TokenEncryption_decrypt(probe.token)]
    /\ UNCHANGED <<now, integrations, last, inflight, queue, scheduled, responded,
                   syncStarted, lastSync, rows, calls, entity_refs,
                   auth_client, refreshing, intuit,
                   _strategies, web, entity_mappings, retrying, token_call>>

NextCorrupt == Encrypt \/ Corrupt \/ DecryptCorrupted

SpecCorrupt == InitState /\ [][NextCorrupt]_vars

(***************************************************************************)
(* Properties of the OAuth callback (specification Spec)                   *)
(***************************************************************************)

\* A state token that is not one generate_state issued at most StateTTL
\* seconds before t: expired, tampered with, or malformed.
FailsValidation(state, t) ==
    ~ \E p \in Partners, s \in Systems, ts \in TimePoints :
         /\ ts <= t
         /\ t - ts <= StateTTL
         /\ state = generate_state(p, CallbackUri, s, ts)

\* Number of positions of sequence q that hold x.
Occurrences(q, x) == Cardinality({i \in DOMAIN q : q[i] = x})

\* C1: a callback whose state token fails validation (expired, tampered or
\* malformed) performs no token exchange, creates no integration row (the
\* table is left as it was, nothing is scheduled, no context is returned) and
\* answers with status error.
C1_InvalidStateNoEffect ==
    [][(last'.n # last.n /\ FailsValidation(last'.state, now'))
        => /\ ~Made(last', "exchange_code_for_tokens")
           /\ ~Made(last', "create_integration")
           /\ integrations' = integrations
           /\ scheduled' = scheduled
           /\ last'.context = {}
           /\ last'.integration_id = 0
           /\ last'.status = CallbackStatus_ERROR]_vars

\* C1 witness: an expired token issued by generate_state was presented with a
\* realm and a supported system, after an integration already existed, and was
\* turned down.
C1_Witness ==
    /\ last.n > 0
    /\ last.state.seal = "fernet"
    /\ now - last.state.timestamp > StateTTL
    /\ last.realmId # NoRealm
    /\ last.accounting_system = QUICKBOOKS
    /\ integrations # {}
    /\ last.status = CallbackStatus_ERROR
    /\ last.calls = <<"validate_state">>

\* C4: a repeated successful callback for the same partner and accounting
\* system never leaves two active integration rows for that pair; the later
\* attempt ends as a duplicate-type error instead.
C4_OneActivePerPartnerSystem ==
    \A r1, r2 \in integrations :
        (/\ r1.partner_id = r2.partner_id
         /\ r1.accounting_system = r2.accounting_system
         /\ r1.is_active /\ r2.is_active)
        => r1 = r2

C6_CallbackStepOrder ==
    LET order == <<"validate_state", "exchange_code_for_tokens",
                   "create_integration", "add_task">>
    IN  /\ Len(last.calls) <= Len(order)
        /\ \A i \in DOMAIN last.calls : last.calls[i] = order[i]
        /\ Made(last, "exchange_code_for_tokens")
              => ~FailsValidation(last.state, now) /\ last.realmId # NoRealm
        /\ Made(last, "create_integration") => last.answer = "granted"
        /\ Made(last, "add_task") => last.db = "ok"
        /\ last.n > 0 => Made(last, "validate_state")

\* C6 witness: one callback went through all four steps, and a later one
\* stopped after a failed exchange.
C6_Witness ==
    /\ scheduled # <<>>
    /\ last.calls = <<"validate_state", "exchange_code_for_tokens">>
    /\ last.answer # "granted"

(***************************************************************************)
(* Properties of AccountingDataStore (specification SpecStore)             *)
(***************************************************************************)

\* Two create_integration calls for one partner that ran concurrently: one
\* made its existence check while the other was between check and commit.
Concurrent(c1, c2) ==
    /\ c1 # c2
    /\ calls[c1].pc # "idle" /\ calls[c2].pc # "idle"
    /\ calls[c1].partner_id = calls[c2].partner_id
    /\ calls[c1].raced \/ calls[c2].raced

\* C2: of two or more concurrent create_integration calls for the same
\* partner at most one creates an active integration, and every other one
\* fails with DuplicateIntegrationError; no two active integrations of the
\* partner come out of concurrent calls.
C2_ConcurrentCreatesExclusive ==
    \A c1, c2 \in Creators :
        (/\ Concurrent(c1, c2)
         /\ calls[c1].is_active /\ calls[c2].is_active
         /\ calls[c1].outcome = "created"
         /\ calls[c2].pc = "done")
        => /\ calls[c2].outcome = "DuplicateIntegrationError"
           /\ ~ \E r1, r2 \in ActiveOf(rows, calls[c1].partner_id) :
                    r1.id = c1 /\ r2.id = c2

\* C3: create_integration called for a partner that already has an active
\* integration raises DuplicateIntegrationError and leaves the stored rows
\* as they were.
C3_DuplicateRaisesRowsUnchanged ==
    [][\A c \in Creators :
          (/\ calls[c].pc = "idle"
           /\ calls'[c].pc # "idle"
           /\ ActiveOf(rows, calls'[c].partner_id) # {})
          => /\ calls'[c].pc = "done"
             /\ calls'[c].outcome = "DuplicateIntegrationError"
             /\ rows' = rows]_vars

(***************************************************************************)
(* Properties of the initial sync (specification SpecSync)                 *)
(***************************************************************************)

\* The error each sync records for a failed company-info step.
CompanyErrorOf(by) ==
    IF by = "process_initial_sync" THEN COMPANY_INFO_FETCH_FAILED
    ELSE "Company info fetch failed"

\* The error each sync records for a failed customer step.
CustomerErrorOf(by) ==
    IF by = "process_initial_sync" THEN INITIAL_DATA_FETCH_FAILED
    ELSE "Customer fetch failed"

\* A sync that got to the provider calls and came back with a result.
SyncReturned ==
    /\ lastSync # NoSync
    /\ ~lastSync.raised
    /\ lastSync.errors # <<"Invalid connection details">>

\* C7: for a supported accounting system the initial sync ends without
\* raising whatever sub-steps fail (credential decryption, company-info
\* fetch, company-name persistence, customer fetch, customer parsing) and
\* always has a result; process_initial_sync always reaches the notification.
C7_SyncAlwaysYieldsResult ==
    lastSync # NoSync
        => /\ ~lastSync.raised
           /\ lastSync.status \in {SyncStatus_FULLY_SYNCED, SyncStatus_SYNC_ERROR}
           /\ lastSync.by = "process_initial_sync" => lastSync.notified

\* C8: every initial-sync result has status fully_synced exactly when its
\* errors list is empty and sync_error otherwise, and no other status; the
\* status agrees with InitialSyncResult.get_status.
C8_StatusIffNoErrors ==
    (lastSync # NoSync /\ ~lastSync.raised)
        => /\ lastSync.status \in {SyncStatus_FULLY_SYNCED, SyncStatus_SYNC_ERROR}
           /\ lastSync.status = SyncStatus_FULLY_SYNCED <=> lastSync.errors = <<>>
           /\ lastSync.status = SyncStatus_SYNC_ERROR <=> lastSync.errors # <<>>
           /\ lastSync.status = get_status(lastSync)

\* C8 witness: a result with both step errors recorded and status sync_error.
C8_Witness ==
    /\ SyncReturned
    /\ Len(lastSync.errors) = 2
    /\ lastSync.status = SyncStatus_SYNC_ERROR

\* C9: when the company-info fetch raises the sync goes on: the result has
\* the fallback default company name, the company-info error is recorded,
\* the status is sync_error, and the customers the provider returned are
\* fetched and included.
C9_CompanyInfoFailureContinues ==
    (SyncReturned /\ lastSync.company.raised)
        => /\ lastSync.company_name = DefaultCompanyName_QUICKBOOKS
           /\ lastSync.errors # <<>>
           /\ lastSync.errors[1] = CompanyErrorOf(lastSync.by)
           /\ lastSync.status = SyncStatus_SYNC_ERROR
           /\ (~lastSync.cust.raised /\ ~_extract_customers(lastSync.cust.customers).raised)
                 => /\ lastSync.accounting_clients =
                          _extract_customers(lastSync.cust.customers).results
                    /\ lastSync.errors = <<CompanyErrorOf(lastSync.by)>>

\* C9 witness: the company-info fetch raised and two customers are in the result.
C9_Witness ==
    /\ SyncReturned
    /\ lastSync.company.raised
    /\ Len(lastSync.accounting_clients) = 2
    /\ lastSync.by = "fetch_initial_data"

\* C10: when the customer fetch raises the result has no clients, records
\* the customer error (distinct from the company-info error), has status
\* sync_error and keeps the company name that was fetched; recorded errors
\* are in step order, the company-info error before the customer error.
C10_CustomerFailureKeepsName ==
    SyncReturned
        => /\ lastSync.errors \in
                 { <<>>, <<CompanyErrorOf(lastSync.by)>>, <<CustomerErrorOf(lastSync.by)>>,
                   <<CompanyErrorOf(lastSync.by), CustomerErrorOf(lastSync.by)>> }
           /\ CompanyErrorOf(lastSync.by) # CustomerErrorOf(lastSync.by)
           /\ lastSync.cust.raised
                 => /\ lastSync.accounting_clients = <<>>
                    /\ lastSync.errors[Len(lastSync.errors)] = CustomerErrorOf(lastSync.by)
                    /\ lastSync.status = SyncStatus_SYNC_ERROR
                    /\ ~lastSync.company.raised
                          => lastSync.company_name = lastSync.company.name

\* C10 witness: the customer fetch raised after the company name was fetched
\* but could not be stored, so both errors are recorded and the name is kept.
C10_Witness ==
    /\ SyncReturned
    /\ lastSync.cust.raised
    /\ lastSync.company_name = "Acme Corp"
    /\ Len(lastSync.errors) = 2

(***************************************************************************)
(* Properties of entity references and of the completion notification      *)
(* (specifications SpecPersist and SpecSync)                               *)
(***************************************************************************)
\* The entity references stored for one customer of one integration.
RefsOf(table, integration_id, accounting_client_id) ==
    {r \in table : /\ r.integration_id = integration_id
                   /\ r.accounting_entity_type = AccountingEntityType_CUSTOMER
                   /\ r.accounting_entity_id = accounting_client_id}

\* C11: once process_initial_sync has notified with the base URL configured
\* and no errors, one notification with status fully_synced has been posted
\* and every customer of its accounting_clients list has a Customer entity
\* reference stored for the integration.
C11_SyncPersistsEntityRefsBeforeNotifying ==
    (/\ lastSync.by = "process_initial_sync"
     /\ lastSync.notified
     /\ lastSync.base_url_set
     /\ lastSync.errors = <<>>)
    => /\ lastSync.posted = 1
       /\ lastSync.status = SyncStatus_FULLY_SYNCED
       /\ \A i \in DOMAIN lastSync.accounting_clients :
             RefsOf(entity_refs, lastSync.integration_id,
                    lastSync.accounting_clients[i].accounting_client_id) # {}

\* No customer occurs twice in the list.
DistinctClients(clients) ==
    \A i, j \in DOMAIN clients :
        clients[i].accounting_client_id = clients[j].accounting_client_id => i = j

\* C12: after the same customer list has been persisted twice for the same
\* integration, exactly one entity reference is stored per (integration,
\* entity type, external id).
C12_RepeatedPersistKeepsOneRowPerKey ==
    (/\ lastSync.persisted = 2
     /\ DistinctClients(lastSync.accounting_clients))
    => \A i \in DOMAIN lastSync.accounting_clients :
          Cardinality(RefsOf(entity_refs, lastSync.integration_id,
                             lastSync.accounting_clients[i].accounting_client_id)) = 1

C14_RefreshStoresRotatedTokens ==
    \A r \in Refreshers :
        refreshing[r].result = "ok"
        => /\ refreshing[r].written # {}
           /\ \A w \in refreshing[r].written :
                 /\ decrypt(w.refresh_token) =
                        [ok |-> TRUE, token |-> refreshing[r].issued.refresh_token]
                 /\ decrypt(w.access_token) =
                        [ok |-> TRUE, token |-> refreshing[r].issued.access_token]
                 /\ decrypt(w.refresh_token).token # refreshing[r].used
           /\ refreshing[r].sent \notin refreshing[r].retired

\* The steps at which a refresh_tokens call can fail: integration missing
\* or without refresh token or not decryptable, the provider refusing its
\* refresh request or answering it without tokens, the store raising.
RefreshFailed(run) ==
    \/ run.used = <<>>
    \/ run.error
    \/ run.answer = "empty"
    \/ run.written = {}

\* C15: a refresh_tokens call that ends after failing at any step ends by
\* raising, and the step that ends it leaves the stored tokens as they were.
C15_FailedRefreshPropagatesAndKeepsTokens ==
    [][\A r \in Refreshers :
          (/\ refreshing[r].pc # "done"
           /\ refreshing'[r].pc = "done"
           /\ RefreshFailed(refreshing'[r]))
          => /\ refreshing'[r].result = "raised"
             /\ integrations' = integrations]_vars

\* A column value that only a key opens.
IsCiphertext(c) == c.key \in {"process", "previous"}

\* C19: every token column of every stored integration, as the callbacks
\* wrote it or as a refresh rewrote it, holds a ciphertext, never the token
\* itself.
C19_StoredTokensAreCiphertext ==
    \A row \in integrations :
        \A c \in {row.access_token, row.refresh_token} :
            c # NoCipher => IsCiphertext(c)

\* C19 witness: a refresh has rewritten the tokens of an integration the
\* callback had created.
C19_Witness ==
    \E r \in Refreshers : \E row \in integrations :
        /\ refreshing[r].result = "ok"
        /\ row.integration_id = refreshing[r].integration_id
        /\ [access_token |-> row.access_token, refresh_token |-> row.refresh_token]
               \in refreshing[r].written
        /\ \E other \in integrations : other.access_token.iv < 100

(***************************************************************************)
(* Properties of the state token codecs (specification SpecState)          *)
(***************************************************************************)
\* An untampered token of OAuthStateManager or of utils.oauth_state has been
\* validated.
ValidatedUntampered ==
    /\ probe.op = "validated"
    /\ ~probe.tampered
    /\ probe.codec \in {"OAuthStateManager", "utils.oauth_state"}

\* C16: with either codec, a token validated more than 600 s after its
\* generation is rejected as expired and one validated 599 s after it is
\* accepted, whether it was generated on a whole second or between two.
C16_ExpiryAtTTL ==
    ValidatedUntampered
    => /\ (probe.v - probe.g > StateTTL * TicksPerSecond
             => probe.result.kind # "payload" /\ probe.result.expired)
       /\ (probe.v - probe.g = (StateTTL - 1) * TicksPerSecond
             => probe.result.kind = "payload")

\* C16 witness: a token generated between two whole seconds was validated
\* half a second past the TTL and rejected as expired.
C16_Witness ==
    /\ ValidatedUntampered
    /\ probe.g % TicksPerSecond # 0
    /\ probe.v - probe.g = StateTTL * TicksPerSecond + 1
    /\ probe.result.expired

C18_TamperedSignatureRejected ==
    (probe.op = "validated" /\ probe.codec \in SignedCodecs)
    => /\ (probe.tampered => probe.result.kind # "payload")
       /\ (SignatureOf(probe.codec, probe.token) # ExpectedSignatureOf(probe.codec, probe.token)
             => probe.result.kind # "payload")

\* C18 witness: a token whose last signature character was changed to
\* another hex digit was verified within the TTL and came back as None.
C18_Witness ==
    /\ probe.op = "validated"
    /\ probe.tampered
    /\ probe.v = probe.g
    /\ probe.codec = "utils.oauth_state"
    /\ probe.token.signature[SigLen] \in HexDigits
    /\ probe.token.signature[1] = ExpectedSignatureOf(probe.codec, probe.token)[1]
    /\ probe.result.kind = "None"

(***************************************************************************)
(* Properties of the credential cipher (specification SpecCipher)          *)
(***************************************************************************)
\* C20: decrypting what encrypt made of a string gives that string back,
\* for the empty string, for strings filling whole blocks, for multi-byte
\* characters and for a string of more than 500 characters.
C20_DecryptInvertsEncrypt ==
    probe.op = "decrypted" => probe.result = [ok |-> TRUE, str |-> probe.input]

\* C20 witness: a string whose bytes fill two whole blocks has been
\* encrypted under a non-zero IV and decrypted.
C20_Witness ==
    /\ probe.op = "decrypted"
    /\ probe.input = Repeat(97, 2 * BlockSize)
    /\ b64decode(probe.token)[1] # 0
    /\ probe.result.ok

\* C21: decrypt returns no string for a ciphertext that encrypt did not
\* produce: one of whose bytes was changed.
C21_DecryptRejectsCorrupted ==
    (probe.op = "decrypted" /\ probe.tampered) => ~probe.result.ok

(***************************************************************************)
(* Further properties of the OAuth callback (specification Spec)           *)
(***************************************************************************)
\* C22: a callback whose token exchange failed ends with status error and
\* the fixed internal-error message as its error_reason, never a text taken
\* from the exception.
C22_ExchangeFailureGenericReason ==
    (/\ Made(last, "exchange_code_for_tokens")
     /\ last.answer # "granted")
    => /\ last.status = CallbackStatus_ERROR
       /\ last.error_reason = INTERNAL_ERROR

(* ------------------- AccountingSystemFactory and routes ----------------- *)
\* class AccountingSystem(str, Enum)
SAGE == "sage"
AccountingSystem == {QUICKBOOKS, XERO, SAGE}

\* Names a caller may put in the path of the authenticate request.
RequestedSystems == {"quickbooks", "QuickBooks", "QUICKBOOKS", "xero", "Xero", "sage", "unsupported"}

\* Classes a system may be registered with.
StrategyClasses == {"QuickBooksAuthStrategy", "XeroStrategy"}

UnsupportedAccountingSystemError == "UnsupportedAccountingSystemError"

\* str.lower on the names above.
lower(s) ==
    CASE s \in {"QuickBooks", "QUICKBOOKS"} -> "quickbooks"
      [] s = "Xero" -> "xero"
      [] OTHER -> s

\* A lookup that takes the name as it was written.
get_strategy_exact(strategies, accounting_system) ==
    IF accounting_system \notin {"quickbooks", "xero", "sage"}
    THEN [raised |-> "UnsupportedAccountingSystemError", strategy |-> ""]
    ELSE IF accounting_system \notin DOMAIN strategies
    THEN [raised |-> "UnsupportedAccountingSystemError", strategy |-> ""]
    ELSE [raised |-> "", strategy |-> strategies[accounting_system]]

\* AccountingSystemFactory.get_strategy: an instance of the class registered
\* for the member the lower-cased name denotes, or the error.
get_strategy(strategies, accounting_system) ==
    LET member == lower(accounting_system)
    IN  IF member \notin AccountingSystem
        THEN [raised |-> UnsupportedAccountingSystemError, strategy |-> ""]
        ELSE IF member \notin DOMAIN strategies
        THEN [raised |-> UnsupportedAccountingSystemError, strategy |-> ""]
        ELSE [raised |-> "", strategy |-> strategies[member]]

\* AccountingSystemFactory.register_strategy
register_strategy(strategies, accounting_system, strategy_class) ==
    [s \in DOMAIN strategies \cup {accounting_system} |->
        IF s = accounting_system THEN strategy_class ELSE strategies[s]]

\* AccountingSystemFactory.supported_systems
supported_systems(strategies) == DOMAIN strategies

\* Callback URLs a caller may name when it starts a transaction, and the
\* values settings.OCTUP_REDIRECT_URI may be configured with.
CallerUrls == {CallbackUri, "https://partner.example/return"}
RedirectSettings == {"", "https://app.octup.com/integrations"}

\* The HTTP answers of the routes.
NoResponse == [kind |-> ""]
RedirectResponse(url, status, error_reason) ==
    [kind |-> "RedirectResponse", status_code |-> 307, url |-> url,
     status |-> status, error_reason |-> error_reason,
     partner_id |-> 0, accounting_system |-> ""]
HTTPException(status_code) ==
    [kind |-> "HTTPException", status_code |-> status_code, url |-> "",
     status |-> "", error_reason |-> "", partner_id |-> 0, accounting_system |-> ""]
ReturnedTuple ==
    [kind |-> "tuple", status_code |-> 200, url |-> "", status |-> "",
     error_reason |-> "", partner_id |-> 0, accounting_system |-> ""]

\* AuthService.get_authorization_url: the state it generates and the
\* strategy whose authorization URL it returns, or the factory's error.
get_authorization_url(strategies, accounting_system, partner_id, tick) ==
    LET s == get_strategy(strategies, accounting_system)
    IN  IF s.raised # ""
        THEN [raised |-> s.raised, state |-> <<>>, strategy |-> ""]
        ELSE [raised |-> "", strategy |-> s.strategy,
              state |-> utils_generate_state(partner_id, accounting_system, tick)]

\* routes/oauth.py authenticate
authenticate(strategies, accounting_system, partner_id, callback_url, tick) ==
    LET a == get_authorization_url(strategies, accounting_system, partner_id, tick)
    IN  IF a.raised = UnsupportedAccountingSystemError
        THEN [a EXCEPT !.raised = ""] @@ [response |-> HTTPException(404)]
        ELSE a @@ [response |-> RedirectResponse("auth_url", "", "")]

\* What the strategy's handle_callback does with the provider's answer: it
\* returns a result, returns a result that reports an error
\* (OAuthService.handle_callback), or raises.
StrategyAnswers == {"ok", "error_result", "ValueError", "Exception"}

\* AuthService.handle_callback and CallbackService.handle_callback (the
\* same body): raised is the exception that leaves it, validated whether
\* the state passed verify_state.
service_handle_callback(strategies, state, tick, answer) ==
    LET verified_state == verify_state(state, tick)
        s == get_strategy(strategies, verified_state.payload.accounting_system)
    IN  IF state = <<>>
        THEN [raised |-> "ValueError", validated |-> FALSE, auth_result |-> ""]
        ELSE IF verified_state.kind = "TypeError"
        THEN [raised |-> "TypeError", validated |-> FALSE, auth_result |-> ""]
        ELSE IF verified_state.kind = "None"
        THEN [raised |-> "ValueError", validated |-> FALSE, auth_result |-> ""]
        ELSE IF s.raised # ""
        THEN [raised |-> s.raised, validated |-> TRUE, auth_result |-> ""]
        ELSE IF answer \in {"ValueError", "Exception"}
        THEN [raised |-> answer, validated |-> TRUE, auth_result |-> ""]
        ELSE [raised |-> "", validated |-> TRUE, auth_result |-> answer]

\* dict.get(key): the member, or None ("").
dict_get(d, key) == IF key \in DOMAIN d THEN d[key] ELSE ""

\* The except clauses both callback routes end with.
RouteRaised(raised) ==
    IF raised = "ValueError" THEN HTTPException(400)
    ELSE IF raised = UnsupportedAccountingSystemError THEN HTTPException(404)
    ELSE HTTPException(500)

\* routes/oauth.py callback: the service verifies the state at tick, the
\* route verifies it once more at tick2.
routes_oauth_callback(strategies, state, tick, tick2, answer, OCTUP_REDIRECT_URI) ==
    LET h == service_handle_callback(strategies, state, tick, answer)
        verified_state == verify_state(state, tick2)
        from_state == dict_get(verified_state.payload, "callback_url")
        callback_url == IF from_state # "" THEN from_state ELSE OCTUP_REDIRECT_URI
    IN  IF h.raised # "" THEN RouteRaised(h.raised)
        ELSE IF verified_state.kind # "payload" THEN RouteRaised("ValueError")
        ELSE IF callback_url # ""
        THEN [RedirectResponse(callback_url, "success", "") EXCEPT
                 !.partner_id = verified_state.payload.partner_id,
                 !.accounting_system = verified_state.payload.accounting_system]
        ELSE ReturnedTuple

\* routes/callback.py callback: the service verifies the state at tick, the
\* route verifies it once more at tick2 and subscripts what comes back; of
\* None that raises TypeError.
routes_callback_callback(strategies, state, tick, tick2, answer) ==
    LET h == service_handle_callback(strategies, state, tick, answer)
        verified_state == verify_state(state, tick2)
    IN  IF h.raised # "" THEN RouteRaised(h.raised)
        ELSE IF verified_state.kind # "payload" THEN RouteRaised("TypeError")
        ELSE [RedirectResponse("/success", "", "") EXCEPT
                 !.partner_id = verified_state.payload.partner_id,
                 !.accounting_system = verified_state.payload.accounting_system]

CallbackRoutes == {"routes/oauth.py", "routes/callback.py"}

\* The application registers a strategy class for a system.
RegisterStrategy ==
    /\ \E accounting_system \in AccountingSystem, strategy_class \in StrategyClasses :
          _strategies' = register_strategy(_strategies, accounting_system, strategy_class)
    /\ UNCHANGED <<now, integrations, last, inflight, queue, scheduled, responded,
                   syncStarted, lastSync, rows, calls, entity_refs,
                   auth_client, refreshing, intuit, probe, web, entity_mappings, retrying, token_call>>

\* A caller asks for the authorization URL of a system, naming the URL it
\* wants to come back to.
Authenticate ==
    /\ web.op = ""
    /\ \E accounting_system \in RequestedSystems, partner_id \in Partners,
          callback_url \in CallerUrls, g \in GenerationTicks :
          LET a == authenticate(_strategies, accounting_system, partner_id, callback_url, g)
          IN  web' = [web EXCEPT
                        !.op = IF a.response.kind = "RedirectResponse"
                               THEN "authorized" ELSE "refused",
                        !.route = "routes/oauth.py",
                        !.partner_id = partner_id,
                        !.accounting_system = accounting_system,
                        !.callback_url = callback_url,
                        !.state = a.state, !.g = g, !.strategy = a.strategy,
                        !.response = a.response]
    /\ UNCHANGED <<now, integrations, last, inflight, queue, scheduled, responded,
                   syncStarted, lastSync, rows, calls, entity_refs,
                   auth_client, refreshing, intuit, probe, _strategies, entity_mappings, retrying, token_call>>

\* The process starts anew: the registry is as the class statement leaves it.
RestartApplication ==
    /\ _strategies # NoStrategies
    /\ _strategies' = NoStrategies
    /\ UNCHANGED <<now, integrations, last, inflight, queue, scheduled, responded,
                   syncStarted, lastSync, rows, calls, entity_refs,
                   auth_client, refreshing, intuit, probe, web, entity_mappings, retrying, token_call>>

\* What may come back as the state parameter of an issued state: the state,
\* nothing, and the state with the first character of its signature
\* replaced by another hex digit or by a character outside ASCII.
PresentedStates(state) ==
    {state, <<>>,
     [state EXCEPT !.signature[1] = (@ + 1) % 16],
     [state EXCEPT !.signature[1] = NonAsciiChar]}

\* Ticks between the service's verification and the route's own.
RouteLags == {0, 1}

\* The strategy answers only when the service calls it.
StrategyAnswersFor(strategies, state, tick) ==
    IF service_handle_callback(strategies, state, tick, "ok").raised = ""
    THEN StrategyAnswers ELSE {"ok"}

\* The provider sends the browser back with a state; one of the two
\* callback routes serves it.
RouteCallback ==
    /\ web.op = "authorized"
    /\ \E route \in CallbackRoutes, d \in ValidationDelays, lag \in RouteLags,
          presented \in PresentedStates(web.state),
          OCTUP_REDIRECT_URI \in RedirectSettings :
          \E answer \in StrategyAnswersFor(_strategies, presented, web.g + d) :
             /\ route = "routes/callback.py" => OCTUP_REDIRECT_URI = ""
             /\ web' = [web EXCEPT
                          !.op = "called back", !.route = route, !.v = web.g + d,
                          !.v2 = web.g + d + lag, !.presented = presented,
                          !.OCTUP_REDIRECT_URI = OCTUP_REDIRECT_URI,
                          !.strategy = service_handle_callback(_strategies, presented,
                                                               web.g + d, answer),
                          !.response =
                             IF route = "routes/oauth.py"
                             THEN routes_oauth_callback(_strategies, presented, web.g + d,
                                                        web.g + d + lag, answer,
                                                        OCTUP_REDIRECT_URI)
                             ELSE routes_callback_callback(_strategies, presented,
                                                           web.g + d, web.g + d + lag,
                                                           answer)]
    /\ UNCHANGED <<now, integrations, last, inflight, queue, scheduled, responded,
                   syncStarted, lastSync, rows, calls, entity_refs,
                   auth_client, refreshing, intuit, probe, _strategies, entity_mappings, retrying, token_call>>

NextRoute == RegisterStrategy \/ RestartApplication \/ Authenticate \/ RouteCallback

SpecRoute == InitState /\ [][NextRoute]_vars

\* Whether a served callback failed after its state had been validated.
FailedAfterValidation ==
    /\ web.op = "called back"
    /\ web.strategy.validated
    /\ web.strategy.raised # "" \/ web.strategy.auth_result = "error_result"

\* C23: a callback that fails after its state was validated is answered
\* with a redirect to the caller's callback URI carrying status=error and an
\* error reason, never with a bare HTTP error.
C23_FailureRedirectsToCaller ==
    FailedAfterValidation
    => /\ web.response.kind = "RedirectResponse"
       /\ web.response.url = web.callback_url
       /\ web.response.status = "error"
       /\ web.response.error_reason # ""

\* C24: the redirect that ends a successful callback goes to the callback
\* URI the caller named when it started the transaction.
C24_SuccessRedirectsToCallerUri ==
    (/\ web.op = "called back"
     /\ web.strategy.raised = ""
     /\ web.strategy.auth_result = "ok")
    => /\ web.response.kind = "RedirectResponse"
       /\ web.response.url = web.callback_url

\* C30: asking for the authorization URL of a system that is unknown, or
\* known but without a registered strategy, is answered 404 and issues no
\* state and no URL; for a registered system, in any letter case, the
\* strategy used is an instance of the class registered for it.
C30_UnsupportedRefusedRegisteredServed ==
    [][(web.op = "" /\ web'.op # "")
       => LET member == lower(web'.accounting_system)
          IN  IF member \in AccountingSystem /\ member \in DOMAIN _strategies
              THEN /\ web'.response.kind = "RedirectResponse"
                   /\ web'.strategy = _strategies[member]
                   /\ web'.state # <<>>
              ELSE /\ web'.response = HTTPException(404)
                   /\ web'.state = <<>>
                   /\ web'.strategy = ""]_vars

C30_Witness ==
    /\ web.op = "authorized"
    /\ web.accounting_system = "QuickBooks"
    /\ web.strategy = "XeroStrategy"

(***************************************************************************)
(* Failures of state validation (specification SpecForged)                 *)
(***************************************************************************)
StringCodecs == {"OAuthStateManager", "utils.oauth_state"}

\* What the caller of a validation sees of its outcome: the kind of the
\* result and, of a ValueError, its message.
Visible(codec, result) ==
    IF codec = "OAuthStateManager" THEN <<result.kind, result.error>>
    ELSE <<result.kind, "">>

\* Why the validated token was bound to fail.
CauseOf(p) ==
    IF p.made # "" THEN p.made
    ELSE IF p.tampered THEN "signature mismatch"
    ELSE "TTL exceeded"

\* One failing validation per cause, with what its caller sees.
SampleFailures(codec) ==
    LET g == TicksPerSecond
        late == g + (StateTTL + 1) * TicksPerSecond
    IN  {[cause |-> f.made,
          visible |-> Visible(codec, IF codec = "OAuthStateManager"
                                     THEN manager_validate_state(f.token, g)
                                     ELSE verify_state(f.token, g))] :
            f \in ForgedStates(codec)}
        \cup
        {[cause |-> "TTL exceeded",
          visible |-> Visible(codec,
                        IF codec = "OAuthStateManager"
                        THEN manager_validate_state(
                                manager_generate_state(1, CallbackUri, QUICKBOOKS, g), late)
                        ELSE verify_state(utils_generate_state(1, QUICKBOOKS, g), late))]}

\* C25: what the caller sees of a failed validation tells the cause apart
\* from the three other causes among malformed format, signature mismatch,
\* JSON decode failure and TTL exceeded.
C25_FailureCausesDistinguishable ==
    (/\ probe.op = "validated"
     /\ probe.codec \in StringCodecs
     /\ probe.result.kind # "payload")
    => \A f \in SampleFailures(probe.codec) :
          f.cause # CauseOf(probe)
             => f.visible # Visible(probe.codec, probe.result)

\* C26: whatever string is presented, validation returns a payload or its
\* structured failure, None from verify_state and ValueError from
\* validate_state, and raises nothing else.
C26_OnlyStructuredFailures ==
    (probe.op = "validated" /\ probe.codec \in StringCodecs)
    => probe.result.kind \in
          {"payload", IF probe.codec = "OAuthStateManager" THEN "ValueError" ELSE "None"}

(* ------------------------ Parsing the customer list --------------------- *)
\* The parsers of a customer-list response.
CustomerParsers == {"_parse_qbo_customers", "_extract_customers", "_fetch_customers"}

\* The loop of QuickBooksAuthStrategy._fetch_customers (strategies/
\* quickbooks.py): customer["Id"] raises for a row without the key, and for
\* a row that is no object.
RECURSIVE _fetch_customers(_)
_fetch_customers(customers) ==
    IF customers = <<>> THEN [raised |-> FALSE, results |-> <<>>]
    ELSE LET customer == Head(customers)
             rest == _fetch_customers(Tail(customers))
         IN  IF ~customer.dict \/ customer.Id = "" \/ rest.raised
             THEN [raised |-> TRUE, results |-> <<>>]
             ELSE [raised |-> FALSE,
                   results |-> <<[accounting_entity_id |-> customer.Id,
                                  display_name |-> customer.DisplayName]>>
                               \o rest.results]

\* The provider answers the customer query with a Customer list.
FetchCustomers ==
    /\ probe.op = ""
    /\ \E customers \in SeqsUpTo(CustomerRows, MaxCustomers) :
          probe' = [NoProbe EXCEPT !.op = "fetched", !.input = customers]
    /\ UNCHANGED <<now, integrations, last, inflight, queue, scheduled, responded,
                   syncStarted, lastSync, rows, calls, entity_refs,
                   auth_client, refreshing, intuit,
                   _strategies, web, entity_mappings, retrying, token_call>>

\* One of the parsers goes through the list.
ParseCustomers ==
    /\ probe.op = "fetched"
    /\ \E parser \in CustomerParsers :
          probe' = [probe EXCEPT
                      !.op = "parsed", !.codec = parser,
                      !.result = IF parser = "_fetch_customers"
                                 THEN _fetch_customers(probe.input)
                                 ELSE _extract_customers(probe.input)]
    /\ UNCHANGED <<now, integrations, last, inflight, queue, scheduled, responded,
                   syncStarted, lastSync, rows, calls, entity_refs,
                   auth_client, refreshing, intuit,
                   _strategies, web, entity_mappings, retrying, token_call>>

NextParse == FetchCustomers \/ ParseCustomers

SpecParse == InitState /\ [][NextParse]_vars

(***************************************************************************)
(* Properties of customer parsing (specification SpecParse)                *)
(***************************************************************************)
\* The entries of a response that have an Id, in their order.
RECURSIVE WithId(_)
WithId(customers) ==
    IF customers = <<>> THEN <<>>
    ELSE IF Head(customers).dict /\ Head(customers).Id # ""
    THEN <<Head(customers)>> \o WithId(Tail(customers))
    ELSE WithId(Tail(customers))

\* Every entry of the response is an object.
AllObjects(customers) == \A i \in DOMAIN customers : customers[i].dict

\* The external id of parsed entry i.
ParsedId(parser, results, i) ==
    IF parser = "_fetch_customers" THEN results[i].accounting_entity_id
    ELSE results[i].accounting_client_id

\* C27: parsing a customer list never fails because an entry has no Id, and
\* the parsed list holds exactly the entries with an Id, in their order.
C27_ParsedListIsEntriesWithId ==
    (probe.op = "parsed" /\ AllObjects(probe.input))
    => /\ ~probe.result.raised
       /\ Len(probe.result.results) = Len(WithId(probe.input))
       /\ \A i \in DOMAIN probe.result.results :
             ParsedId(probe.codec, probe.result.results, i) = WithId(probe.input)[i].Id

\* C28: each customer parsed by _parse_qbo_customers / _extract_customers
\* has as display_name the DisplayName if there is one, else the
\* FullyQualifiedName if there is one, else the Id; and as parent_ref the
\* value inside ParentRef when that is an object, and none otherwise.
C28_DisplayNameAndParentRef ==
    (/\ probe.op = "parsed"
     /\ probe.codec \in {"_parse_qbo_customers", "_extract_customers"}
     /\ ~probe.result.raised)
    => \A i \in DOMAIN probe.result.results :
          LET row == WithId(probe.input)[i]
              parsed == probe.result.results[i]
          IN  /\ row.DisplayName # "" => parsed.display_name = row.DisplayName
              /\ (row.DisplayName = "" /\ row.FullyQualifiedName # "")
                    => parsed.display_name = row.FullyQualifiedName
              /\ (row.DisplayName = "" /\ row.FullyQualifiedName = "")
                    => parsed.display_name = row.Id
              /\ parsed.parent_ref =
                    (IF row.ParentRef \in {NoParent, "no object"} THEN NoParent
                     ELSE row.ParentRef)

\* C28 witness: a list with a sub-customer named by its FullyQualifiedName
\* and a customer without any name and with a ParentRef that is no object
\* was parsed.
C28_Witness ==
    /\ probe.op = "parsed"
    /\ probe.codec = "_parse_qbo_customers"
    /\ ~probe.result.raised
    /\ Len(probe.result.results) = 2
    /\ probe.result.results[1].parent_ref = "1"
    /\ probe.result.results[1].display_name = "Customer 1:Job"
    /\ probe.result.results[2].display_name = "3"
    /\ probe.input[2].ParentRef = "no object"

(* ----------------- AccountingDataStore: entity mappings ----------------- *)
OctupEntityTypes == {"Client", "Order"}
OctupEntityIds == {"client-100", "client-200"}
AccountingEntityTypes == {"Customer", "Invoice"}
AccountingEntityIds == {"QB-Customer-789", "QB-Customer-790"}
MappingIds == 1..MaxMappings
MappingIntegrations == {"test-uuid-123"}

\* EntityMappingCreate
EntityMappingCreates ==
    [integration_id : MappingIntegrations,
     octup_entity_type : OctupEntityTypes, octup_entity_id : OctupEntityIds,
     accounting_entity_type : AccountingEntityTypes,
     accounting_entity_id : AccountingEntityIds]

\* EntityMappingUpdate: each field is set or left unset ("").
EntityMappingUpdates ==
    [octup_entity_type : OctupEntityTypes \cup {""},
     octup_entity_id : OctupEntityIds \cup {""},
     accounting_entity_type : AccountingEntityTypes \cup {""},
     accounting_entity_id : AccountingEntityIds \cup {""}]

\* result.scalar_one_or_none(): the row, None, or MultipleResultsFound.
NoMapping == [id |-> 0]
scalar_one_or_none(matching) ==
    IF matching = {} THEN [raised |-> "", row |-> NoMapping]
    ELSE IF Cardinality(matching) > 1
    THEN [raised |-> "MultipleResultsFound", row |-> NoMapping]
    ELSE [raised |-> "", row |-> CHOOSE m \in matching : TRUE]

\* AccountingDataStore.get_entity_mapping_by_octup_entity
get_entity_mapping_by_octup_entity(table, integration_id, octup_entity_type, octup_entity_id) ==
    scalar_one_or_none({m \in table : /\ m.integration_id = integration_id
                                      /\ m.octup_entity_type = octup_entity_type
                                      /\ m.octup_entity_id = octup_entity_id})

\* AccountingDataStore.get_entity_mapping_by_accounting_entity
get_entity_mapping_by_accounting_entity(table, integration_id, accounting_entity_type, accounting_entity_id) ==
    scalar_one_or_none({m \in table : /\ m.integration_id = integration_id
                                      /\ m.accounting_entity_type = accounting_entity_type
                                      /\ m.accounting_entity_id = accounting_entity_id})

\* AccountingDataStore.create_entity_mapping: the row is added under a new
\* id; nothing is looked up first.
create_entity_mapping(table, id, data) ==
    table \cup {[id |-> id, integration_id |-> data.integration_id,
                 octup_entity_type |-> data.octup_entity_type,
                 octup_entity_id |-> data.octup_entity_id,
                 accounting_entity_type |-> data.accounting_entity_type,
                 accounting_entity_id |-> data.accounting_entity_id]}

\* AccountingDataStore.update_entity_mapping: the fields that are set
\* replace those of the row with the id.
update_entity_mapping(table, mapping_id, data) ==
    {IF m.id # mapping_id THEN m
     ELSE [id |-> m.id, integration_id |-> m.integration_id,
           octup_entity_type |-> IF data.octup_entity_type # ""
                                 THEN data.octup_entity_type ELSE m.octup_entity_type,
           octup_entity_id |-> IF data.octup_entity_id # ""
                               THEN data.octup_entity_id ELSE m.octup_entity_id,
           accounting_entity_type |-> IF data.accounting_entity_type # ""
                                      THEN data.accounting_entity_type
                                      ELSE m.accounting_entity_type,
           accounting_entity_id |-> IF data.accounting_entity_id # ""
                                    THEN data.accounting_entity_id
                                    ELSE m.accounting_entity_id] : m \in table}

\* AccountingDataStore.delete_entity_mapping
delete_entity_mapping(table, mapping_id) == {m \in table : m.id # mapping_id}

CreateEntityMapping ==
    /\ \E id \in MappingIds, data \in EntityMappingCreates :
          /\ \A m \in entity_mappings : m.id # id
          /\ entity_mappings' = create_entity_mapping(entity_mappings, id, data)
    /\ UNCHANGED <<now, integrations, last, inflight, queue, scheduled, responded,
                   syncStarted, lastSync, rows, calls, entity_refs,
                   auth_client, refreshing, intuit, probe, _strategies, web, retrying, token_call>>

\* An update of a mapping that exists; one of a mapping that does not
\* raises EntityMappingNotFoundError and changes nothing.
UpdateEntityMapping ==
    /\ \E mapping_id \in MappingIds, data \in EntityMappingUpdates :
          /\ \E m \in entity_mappings : m.id = mapping_id
          /\ entity_mappings' = update_entity_mapping(entity_mappings, mapping_id, data)
    /\ UNCHANGED <<now, integrations, last, inflight, queue, scheduled, responded,
                   syncStarted, lastSync, rows, calls, entity_refs,
                   auth_client, refreshing, intuit, probe, _strategies, web, retrying, token_call>>

DeleteEntityMapping ==
    /\ \E mapping_id \in MappingIds :
          entity_mappings' = delete_entity_mapping(entity_mappings, mapping_id)
    /\ UNCHANGED <<now, integrations, last, inflight, queue, scheduled, responded,
                   syncStarted, lastSync, rows, calls, entity_refs,
                   auth_client, refreshing, intuit, probe, _strategies, web, retrying, token_call>>

NextMapping == CreateEntityMapping \/ UpdateEntityMapping \/ DeleteEntityMapping

SpecMapping == InitState /\ [][NextMapping]_vars

\* C29: for every stored mapping, the lookup by its platform entity and the
\* lookup by its accounting entity both return without raising, and both
\* return that mapping.
C29_LookupsAgreeBothWays ==
    \A m \in entity_mappings :
       LET o == get_entity_mapping_by_octup_entity(entity_mappings, m.integration_id,
                    m.octup_entity_type, m.octup_entity_id)
           a == get_entity_mapping_by_accounting_entity(entity_mappings, m.integration_id,
                    m.accounting_entity_type, m.accounting_entity_id)
       IN  /\ o.raised = "" /\ a.raised = ""
           /\ o.row = m /\ a.row = m

(***************************************************************************)
(* Status codes of the callback route (specification SpecRoute)            *)
(***************************************************************************)
\* What the service's own verification made of the presented state.
ServiceVerified == verify_state(web.presented, web.v)

\* C31: routes/callback.py answers a missing, invalid or expired state with
\* 400, an unsupported accounting system with 404, a strategy failure that
\* is no ValueError with 500, and a completed callback with a 307 redirect
\* naming the partner and the accounting system of the transaction.
C31_CallbackRouteStatusCodes ==
    (web.op = "called back" /\ web.route = "routes/callback.py")
    => /\ (web.presented = <<>> \/ ServiceVerified.kind # "payload")
             => web.response = HTTPException(400)
       /\ (web.presented # <<>> /\ ServiceVerified.kind = "payload"
             /\ web.strategy.raised = UnsupportedAccountingSystemError)
             => web.response = HTTPException(404)
       /\ web.strategy.raised = "Exception" => web.response = HTTPException(500)
       /\ web.strategy.raised = ""
             => /\ web.response.kind = "RedirectResponse"
                /\ web.response.status_code = 307
                /\ web.response.partner_id = web.partner_id
                /\ web.response.accounting_system = web.accounting_system

\* C36: a callback the service accepted and completed is not answered with
\* an error by either route, whatever the route's own later verification
\* of the same state finds.
C36_CompletedCallbackNotAnError ==
    (web.op = "called back" /\ web.strategy.raised = "")
    => web.response.kind # "HTTPException"

(***************************************************************************)
(* One active integration per partner (specification SpecStore)            *)
(***************************************************************************)
\* C32: whatever create_integration, update_integration and
\* delete_integration calls have run, no partner has more than one active
\* integration row.
C32_AtMostOneActivePerPartner ==
    \A partner_id \in Partners : Cardinality(ActiveOf(rows, partner_id)) <= 1

(***************************************************************************)
(* Refreshes of different integrations (specification SpecRefresh)         *)
(***************************************************************************)
\* C33: of two refresh_tokens calls for different integrations on the one
\* strategy, each stores the tokens the provider returned to its own
\* request, and neither stores a token the provider returned to the other.
C33_ConcurrentPartnersKeepOwnTokens ==
    \A r1 \in Refreshers, r2 \in Refreshers :
        (/\ r1 # r2
         /\ refreshing[r1].integration_id # refreshing[r2].integration_id
         /\ refreshing[r1].result = "ok")
        => \A w \in refreshing[r1].written :
              /\ decrypt(w.access_token).token = refreshing[r1].issued.access_token
              /\ decrypt(w.refresh_token).token = refreshing[r1].issued.refresh_token
              /\ refreshing[r2].issued.access_token # <<>>
                    => decrypt(w.access_token).token # refreshing[r2].issued.access_token
              /\ refreshing[r2].issued.refresh_token # <<>>
                    => decrypt(w.refresh_token).token # refreshing[r2].issued.refresh_token

(***************************************************************************)
(* Retried persistence operations (specification SpecRetry)                *)
(***************************************************************************)
\* RetrySettings.stop: tenacity.stop_after_attempt(5) stops once the number
\* of the attempt just made has reached 5.
MaxAttemptNumber == 5

stop_after_attempt_six(attempt_number) == attempt_number >= 6

stop(attempt_number) == attempt_number >= MaxAttemptNumber

\* What an attempt of session.execute inside the session can end with: a
\* result, or an exception.  ConnectionResetError and TimeoutError are
\* subclasses of OSError; IntegrityError and ProgrammingError are SQLAlchemy
\* errors that are neither InterfaceError nor OperationalError.
QueryErrors ==
    {"InterfaceError", "OSError", "OperationalError", "ConnectionResetError",
     "TimeoutError", "IntegrityError", "ProgrammingError"}

AttemptOutcomes == {"result"} \cup QueryErrors

\* BaseSQLEngine._retry: retry_if_exception_type((InterfaceError, OSError,
\* OperationalError)) is an isinstance test, so it holds of subclasses too.
_retry(exception) ==
    exception \in {"InterfaceError", "OSError", "OperationalError",
                   "ConnectionResetError", "TimeoutError"}

\* BaseSQLEngine.execute_query, one turn of `async for attempt in
\* self._retry()`: the attempt runs the query; a result returns from the
\* function; an exception the retry predicate refuses propagates; one it
\* accepts is re-raised (reraise=True) when stop says so, and otherwise the
\* loop sleeps and makes the next attempt.
execute_query(call, outcome) ==
    LET made == [call EXCEPT !.outcomes = Append(@, outcome)]
    IN  IF outcome = "result" THEN [made EXCEPT !.op = "returned"]
        ELSE IF ~_retry(outcome)
             THEN [made EXCEPT !.op = "raised", !.raised = outcome]
        ELSE IF stop(call.attempt_number)
             THEN [made EXCEPT !.op = "raised", !.raised = outcome]
        ELSE [made EXCEPT !.attempt_number = @ + 1]

\* A caller starts execute_query: the first attempt is number 1.
ExecuteQuery ==
    /\ retrying.op \in {"", "returned", "raised"}
    /\ retrying' = [NoQuery EXCEPT !.op = "attempting", !.attempt_number = 1]
    /\ UNCHANGED <<now, integrations, last, inflight, queue, scheduled, responded,
                   syncStarted, lastSync, rows, calls, entity_refs,
                   auth_client, refreshing, intuit, probe,
                   _strategies, web, entity_mappings, token_call>>

\* One attempt of the call in progress, ending as the database decides.
Attempt ==
    /\ retrying.op = "attempting"
    /\ \E outcome \in AttemptOutcomes :
          retrying' = execute_query(retrying, outcome)
    /\ UNCHANGED <<now, integrations, last, inflight, queue, scheduled, responded,
                   syncStarted, lastSync, rows, calls, entity_refs,
                   auth_client, refreshing, intuit, probe,
                   _strategies, web, entity_mappings, token_call>>

NextRetry == ExecuteQuery \/ Attempt

SpecRetry == InitState /\ [][NextRetry]_vars

Last(seq) == seq[Len(seq)]

AllButLast(seq) == SubSeq(seq, 1, Len(seq) - 1)

\* C34: execute_query makes at most 5 attempts; every attempt but the last
\* failed with a transient error; the call goes on while fewer than 5
\* attempts have all failed transiently, returns on the first result, and
\* raises the error of its last attempt when that error is not transient or
\* when it is the fifth transient one.
C34_AtMostFiveAttempts ==
    LET n == Len(retrying.outcomes)
        Transient(e) == e \in {"InterfaceError", "OSError", "OperationalError",
                               "ConnectionResetError", "TimeoutError"}
    IN  retrying.op # "" =>
          /\ n <= 5
          /\ \A i \in 1..(n - 1) : Transient(retrying.outcomes[i])
          /\ retrying.op = "attempting" =>
                /\ n < 5
                /\ retrying.attempt_number = n + 1
                /\ n > 0 => Transient(Last(retrying.outcomes))
          /\ retrying.op = "returned" => Last(retrying.outcomes) = "result"
          /\ retrying.op = "raised" =>
                /\ retrying.raised = Last(retrying.outcomes)
                /\ retrying.raised # "result"
                /\ Transient(retrying.raised) => n = 5

C34_Witness ==
    /\ retrying.op = "raised"
    /\ Len(retrying.outcomes) = 5
    /\ retrying.raised = "OSError"

C37_CompanyErrorMeansFallbackName ==
    LET recorded == \E i \in DOMAIN lastSync.errors :
                       lastSync.errors[i] = CompanyErrorOf(lastSync.by)
    IN  SyncReturned
          => /\ recorded => lastSync.company_name = DefaultCompanyName_QUICKBOOKS
             /\ lastSync.company_name # DefaultCompanyName_QUICKBOOKS => ~recorded

(***************************************************************************)
(* Persisting no customers (specification SpecPersist)                     *)
(***************************************************************************)
\* C38: upsert_entity_refs called with the empty list of a sync that found
\* no customers does not raise, and leaves the rows of integration_entity_refs
\* as they were.
C38_EmptyUpsertReturnsEmpty ==
    [][(/\ lastSync.by = "fetch_initial_data"
        /\ lastSync'.by = "fetch_initial_data"
        /\ lastSync'.integration_id = lastSync.integration_id
        /\ lastSync.accounting_clients = <<>>
        /\ lastSync' # lastSync)
        => /\ lastSync'.persist_error = ""
           /\ lastSync'.persisted = lastSync.persisted + 1
           /\ entity_refs' = entity_refs]_vars

(***************************************************************************)
(* Two tokens for the same arguments (specification SpecTwice)             *)
(***************************************************************************)
\* How long after the first call generate_state is called again, in ticks:
\* from at once to within the fourth second.
RegenerationDelays == 0..(4 * TicksPerSecond - 1)

\* generate_state is called a second time with the arguments of the first.
GenerateStateAgain ==
    /\ probe.op = "generated"
    /\ \E d \in RegenerationDelays :
          LET g2 == probe.g + d
          IN  probe' = [probe EXCEPT
                          !.op = "generated twice", !.v = g2,
                          !.result =
                             IF probe.codec = "OAuthStateManager"
                             THEN manager_generate_state(probe.input.partner_id,
                                     probe.input.callback_uri,
                                     probe.input.accounting_system, g2)
                             ELSE IF probe.codec = "utils.oauth_state"
                             THEN utils_generate_state(probe.input.partner_id,
                                     probe.input.accounting_system, g2)
                             ELSE app_generate_state(probe.input.partner_id, g2)]
    /\ UNCHANGED <<now, integrations, last, inflight, queue, scheduled, responded,
                   syncStarted, lastSync, rows, calls, entity_refs,
                   auth_client, refreshing, intuit,
                   _strategies, web, entity_mappings, retrying, token_call>>

NextTwice == GenerateState \/ GenerateStateAgain

SpecTwice == InitState /\ [][NextTwice]_vars

\* C39: two calls of utils.oauth_state.generate_state with the same
\* partner and accounting system return the same token exactly when they
\* are made within the same whole second.
C39_TokenDeterminedBySecond ==
    (probe.op = "generated twice" /\ probe.codec = "utils.oauth_state")
        => (probe.token = probe.result
              <=> probe.g \div TicksPerSecond = probe.v \div TicksPerSecond)

\* C39 witness: two calls at different instants of one second returned the
\* same token.
C39_Witness ==
    /\ probe.op = "generated twice"
    /\ probe.codec = "utils.oauth_state"
    /\ probe.g # probe.v
    /\ probe.token = probe.result

(***************************************************************************)
(* QuickBooksStrategy.get_valid_token (specification SpecToken)            *)
(***************************************************************************)
\* timedelta(minutes=5), in seconds.
RefreshMargin == 300

\* A test that also takes a token with exactly the margin left for expired.
is_expired_at_margin(expires_at, utcnow) == expires_at - utcnow <= 300

\* is_expired = expires_at - datetime.utcnow() < timedelta(minutes=5)
is_expired(expires_at, utcnow) == expires_at - utcnow < RefreshMargin

\* Tokens a caller supplies, clock readings, and the time the supplied
\* token has left: expired, expiring now, one second short of the margin,
\* exactly the margin, one second more.
SuppliedAccessTokens == {<<"access", 1>>, <<"access", 2>>}
SuppliedRefreshTokens == {<<"refresh", 1>>, <<"refresh", 2>>}
ClockReadings == {1000, 1001}
TimesLeft == {0 - 1, 0, RefreshMargin - 1, RefreshMargin, RefreshMargin + 1}

\* What client.refresh_token does: it returns a token with a new access and
\* refresh token and expires_in, one without expires_in, one without a
\* refresh_token member, or it raises.
TokenEndpointAnswers == {"rotated", "rotated, no expires_in", "no refresh_token", "error"}

\* The token of an answer: its members, an absent member being <<>>.
new_token(answer) ==
    [access_token |-> <<"access", 9>>,
     refresh_token |-> IF answer = "no refresh_token" THEN <<>> ELSE <<"refresh", 9>>,
     expires_in |-> IF answer = "rotated" THEN <<7200>> ELSE <<>>]

\* TokenResult(...), expires_in being None unless given.
TokenResult(access_token, refresh_token, needs_refresh, expires_in) ==
    [raised |-> "", access_token |-> access_token, refresh_token |-> refresh_token,
     needs_refresh |-> needs_refresh, expires_in |-> expires_in]

\* raise TokenRefreshError(...) from e
TokenRefreshError ==
    [raised |-> "TokenRefreshError", access_token |-> <<>>, refresh_token |-> <<>>,
     needs_refresh |-> FALSE, expires_in |-> <<>>]

\* QuickBooksStrategy.get_valid_token with the clock at utcnow; answer is
\* what the provider does if asked.  refreshes counts the requests made.
get_valid_token(access_token, refresh_token, expires_at, utcnow, answer) ==
    IF ~is_expired(expires_at, utcnow)
    THEN [refreshes |-> 0,
          result |-> TokenResult(access_token, refresh_token, FALSE, <<>>)]
    ELSE [refreshes |-> 1,
          result |->
             IF answer = "error" THEN TokenRefreshError
             ELSE IF new_token(answer).refresh_token = <<>> THEN TokenRefreshError
             ELSE TokenResult(new_token(answer).access_token,
                              new_token(answer).refresh_token, TRUE,
                              IF new_token(answer).expires_in = <<>> THEN <<3600>>
                              ELSE new_token(answer).expires_in)]

\* A caller asks for a valid token; the provider answers only when asked.
GetValidToken ==
    /\ \E access_token \in SuppliedAccessTokens, refresh_token \in SuppliedRefreshTokens,
          utcnow \in ClockReadings, left \in TimesLeft :
       \E answer \in (IF is_expired(utcnow + left, utcnow)
                      THEN TokenEndpointAnswers ELSE {""}) :
          LET r == get_valid_token(access_token, refresh_token, utcnow + left,
                                   utcnow, answer)
          IN  token_call' = [op |-> "called", access_token |-> access_token,
                             refresh_token |-> refresh_token,
                             expires_at |-> utcnow + left, utcnow |-> utcnow,
                             answer |-> answer, refreshes |-> r.refreshes,
                             result |-> r.result]
    /\ UNCHANGED <<now, integrations, last, inflight, queue, scheduled, responded,
                   syncStarted, lastSync, rows, calls, entity_refs,
                   auth_client, refreshing, intuit, probe,
                   _strategies, web, entity_mappings, retrying>>

NextToken == GetValidToken

SpecToken == InitState /\ [][NextToken]_vars

\* C40: with at least five minutes left, get_valid_token returns the
\* supplied tokens with needs_refresh false and asks the provider nothing;
\* with less, it asks the provider once and either returns the provider's
\* new tokens with needs_refresh true or raises TokenRefreshError, and a
\* failed refresh never returns tokens.
C40_ValidTokenOrRefreshedOnce ==
    token_call.op = "called" =>
        IF token_call.expires_at - token_call.utcnow >= 5 * 60
        THEN /\ token_call.refreshes = 0
             /\ token_call.result.raised = ""
             /\ token_call.result.access_token = token_call.access_token
             /\ token_call.result.refresh_token = token_call.refresh_token
             /\ ~token_call.result.needs_refresh
        ELSE /\ token_call.refreshes = 1
             /\ \/ /\ token_call.result.raised = ""
                   /\ token_call.answer \in {"rotated", "rotated, no expires_in"}
                   /\ token_call.result.needs_refresh
                   /\ token_call.result.access_token = <<"access", 9>>
                   /\ token_call.result.refresh_token = <<"refresh", 9>>
                \/ /\ token_call.result.raised = "TokenRefreshError"
                   /\ token_call.answer \in {"error", "no refresh_token"}
                   /\ token_call.result.access_token = <<>>
                   /\ token_call.result.refresh_token = <<>>

\* C40 witness: a token with exactly five minutes left was returned as it
\* was supplied.
C40_Witness ==
    /\ token_call.op = "called"
    /\ token_call.expires_at - token_call.utcnow = 5 * 60
    /\ token_call.result.access_token = token_call.access_token
    /\ ~token_call.result.needs_refresh

====
